---- MODULE Spec2Model ----
(***************************************************************************)
(* Model of the DSL parser of the isometric diagram creator (class         *)
(* DSLParser: tokenize, getTokenType, parse, the statement handlers,       *)
(* consume and validate).                                                  *)
(*                                                                         *)
(* A source text is a sequence of lines; a line is a sequence of pieces.   *)
(* A piece is either one character that matters to the token regex         *)
(* (blank, brace, colon, equals, quote, hash, minus, greater-than, slash,  *)
(* "@" standing for any other non-word character such as an emoji) or a    *)
(* maximal run of word characters (\w+), kept whole.                       *)
(***************************************************************************)
EXTENDS Integers, Sequences, FiniteSets, TLC

VARIABLES
    text,          \* the argument of the running / last parse call
    tokens,        \* this.tokens
    position,      \* this.position
    currentToken,  \* this.currentToken (Null for null / undefined)
    diagram,       \* the local `diagram` of parse
    stack,         \* the active parseContainer invocations, innermost last
    nextRef,       \* identity given to the next container object created
    pc,            \* "idle" | "parsing" | "returned" | "raised"
    error,         \* the error raised by parse (NoError when none)
    result,        \* the value returned by parse (NoDiagram when none)
    validation,    \* outcome of validate on the returned diagram
    decls,         \* history: the component / container declarations met, in order
    consumedAs,    \* history: the expectedType of the consume call that took each token
    calls,         \* history: number of parse calls made on this parser
    previous,      \* history: how the call before the current one ended
    app,           \* the IsometricDiagramApp: its fields, its running handleParse, its timers
    renderer,      \* the IsometricRenderer the app created
    localStorage,  \* the item 'isometric-diagram-dsl' of the browser's localStorage
    history        \* history: the last event delivered and the handleParse calls that failed

vars == <<text, tokens, position, currentToken, diagram, stack, nextRef, pc,
          error, result, validation, decls, consumedAs, calls, previous,
          app, renderer, localStorage, history>>

\* The state of the page around the parser.
uiVars == <<app, renderer, localStorage, history>>

\* The state of the parser and of the validation of what it returned.
parserVars == <<text, tokens, position, currentToken, diagram, stack, nextRef, pc,
                error, result, validation, decls, consumedAs, calls, previous>>

\* ------------------------------------------------------------------ bounds
\* Longest source text given to a new parser, in lines.
MaxLines == 3
\* Longest source text given to a parser that is used again, in lines.
MaxReuseLines == 2
\* Most parse calls made on one parser.
MaxCalls == 3
\* Longest source text of attribute statements, in lines.
MaxAttributeLines == 2
\* Longest source text of relation statements, in lines.
MaxRelationLines == 3
\* Longest source text of the calls followed to their end, in lines.
MaxTerminationLines == 2
MaxAppCalls == 2
MaxSceneCalls == 2
MaxHits == 2

\* ------------------------------------------------------------ characters
Blank == " "
Quote == "\""
\* Characters the token regex treats specially, one piece each.
Structural == {"{", "}", ":", "=", Quote, "-", ">"}
\* Non-word characters that only the last alternative of the regex accepts.
OtherChars == {"@", "/", "#"}

IsWord(c) == c \notin Structural \cup OtherChars \cup {Blank}

\* Word pieces made of decimal digits only.
DigitWords == {"60", "5"}
\* Word pieces that start with a digit and go on with letters.
DigitLedWords == {"5a"}
\* Word pieces made of exactly six hexadecimal digits.
Hex6Words == {"4CAF50"}

RECURSIVE Str(_)
\* The string spelled by a sequence of pieces.
Str(ps) == IF ps = <<>> THEN "" ELSE Head(ps) \o Str(Tail(ps))

\* ------------------------------------------------------------- tokenizer
Null == [type |-> "NULL"]

keywords == {"layout", "style", "component", "container", "relation", "annotation"}
properties == {"direction", "ranksep", "nodesep", "icon", "color", "shape",
               "label", "type", "image", "tooltip", "link"}

AllWords(ps) == \A i \in 1..Len(ps) : IsWord(ps[i])

\* getTokenType(value): value is the matched text, given by its pieces.
getTokenType(v) ==
    IF Str(v) \in keywords THEN "KEYWORD"
    ELSE IF Str(v) \in properties THEN "PROPERTY"
    ELSE IF Str(v) = "{" THEN "LBRACE"
    ELSE IF Str(v) = "}" THEN "RBRACE"
    ELSE IF Str(v) = ":" THEN "COLON"
    ELSE IF Str(v) = "->" THEN "ARROW"
    ELSE IF Str(v) = "=" THEN "EQUALS"
    ELSE IF v[1] = "#" /\ Len(Str(v)) = 7 THEN "COLOR"
    ELSE IF v[1] = Quote /\ v[Len(v)] = Quote THEN "STRING"
    ELSE IF AllWords(v) /\ (\A i \in 1..Len(v) : v[i] \in DigitWords) THEN "NUMBER"
    ELSE IF AllWords(v) /\ v[1] \notin DigitWords \cup DigitLedWords THEN "IDENTIFIER"
    ELSE "UNKNOWN"

\* [^\s{}:">=\-]
NotExcluded(c) == c \notin Structural \cup {Blank}

RECURSIVE WordRunEnd(_, _)
\* Last index of the longest run of word pieces from i on (\w+ is greedy).
WordRunEnd(line, i) ==
    IF i + 1 <= Len(line) /\ IsWord(line[i + 1]) THEN WordRunEnd(line, i + 1) ELSE i

RECURSIVE OtherRunEnd(_, _)
\* Last index of the longest run of non-excluded pieces from i on.
OtherRunEnd(line, i) ==
    IF i + 1 <= Len(line) /\ NotExcluded(line[i + 1]) THEN OtherRunEnd(line, i + 1) ELSE i

\* Index of the next quote piece after i, or 0.
ClosingQuote(line, i) ==
    LET later == {j \in (i + 1)..Len(line) : line[j] = Quote}
    IN IF later = {} THEN 0 ELSE CHOOSE j \in later : \A k \in later : j <= k

\* Last piece of the regex match starting at piece i, or 0 when nothing
\* matches there: (->|\w+|"[^"]*"|[{}:=]|#[0-9A-Fa-f]{6}|[^\s{}:">=\-]+)
MatchEnd(line, i) ==
    LET c == line[i] IN
    IF c = "-" /\ i < Len(line) /\ line[i + 1] = ">" THEN i + 1
    ELSE IF IsWord(c) THEN WordRunEnd(line, i)
    ELSE IF c = Quote THEN ClosingQuote(line, i)
    ELSE IF c \in {"{", "}", ":", "="} THEN i
    ELSE IF c = "#" /\ i < Len(line) /\ line[i + 1] \in Hex6Words THEN i + 1
    ELSE IF NotExcluded(c) THEN OtherRunEnd(line, i)
    ELSE 0

\* value.replace(/^"|"$/g, '')
StripQuotes(v) ==
    LET a == IF v # <<>> /\ Head(v) = Quote THEN Tail(v) ELSE v
    IN IF a # <<>> /\ a[Len(a)] = Quote THEN SubSeq(a, 1, Len(a) - 1) ELSE a

RECURSIVE Trim(_)
\* line.trim()
Trim(line) ==
    IF line = <<>> THEN line
    ELSE IF Head(line) = Blank THEN Trim(Tail(line))
    ELSE IF line[Len(line)] = Blank THEN Trim(SubSeq(line, 1, Len(line) - 1))
    ELSE line

\* The skip test as it would be if only empty lines were skipped.
SkippedLineEmptyOnly(line) == line = <<>>

\* line === '' || line.startsWith('//')
SkippedLine(line) ==
    \/ line = <<>>
    \/ Len(line) >= 2 /\ line[1] = "/" /\ line[2] = "/"

RECURSIVE ScanLine(_, _, _, _)
\* The exec loop over one trimmed line: tokens from piece i on; col is the
\* 1-based column of piece i.
ScanLine(line, i, lineNum, col) ==
    IF i > Len(line) THEN <<>>
    ELSE LET e == MatchEnd(line, i) IN
         IF e = 0 THEN ScanLine(line, i + 1, lineNum, col + Len(line[i]))
         ELSE LET v == SubSeq(line, i, e) IN
              <<[type |-> getTokenType(v), value |-> Str(StripQuotes(v)),
                 line |-> lineNum, column |-> col]>>
              \o ScanLine(line, e + 1, lineNum, col + Len(Str(v)))

RECURSIVE TokenizeFrom(_, _)
TokenizeFrom(lines, lineNum) ==
    IF lineNum > Len(lines) THEN <<>>
    ELSE LET line == Trim(lines[lineNum]) IN
         (IF SkippedLine(line) THEN <<>> ELSE ScanLine(line, 1, lineNum, 1))
         \o TokenizeFrom(lines, lineNum + 1)

\* tokenize as it would be if only the retained lines were numbered.
tokenizeRetained(input) ==
    TokenizeFrom(SelectSeq(input, LAMBDA l : ~SkippedLine(Trim(l))), 1)

\* tokenize(input)
tokenize(input) == TokenizeFrom(input, 1)

\* ------------------------------------------------------------ JS objects
\* An object literal used as a map: own keys in insertion order, and values.
EmptyObject == [keys |-> <<>>, at |-> <<>>]

Has(o, k) == k \in DOMAIN o.at

\* o[k] = v
Put(o, k, v) ==
    IF Has(o, k) THEN [o EXCEPT !.at[k] = v]
    ELSE [keys |-> Append(o.keys, k),
          at |-> [j \in DOMAIN o.at \cup {k} |-> IF j = k THEN v ELSE o.at[j]]]

\* Names every object literal inherits from Object.prototype.
ObjectPrototypeKeys == {"constructor", "toString", "toLocaleString", "valueOf",
                        "hasOwnProperty", "isPrototypeOf", "propertyIsEnumerable",
                        "__proto__"}

\* Whether o[k] is truthy, for a map whose own values are all objects: an own
\* key, or a name found on the prototype.
Truthy(o, k) == Has(o, k) \/ k \in ObjectPrototypeKeys

\* JS numbers as produced by parseInt.
Num(n) == [num |-> n]
NaN == [nan |-> TRUE]

\* parseInt on the word pieces of the model: leading digits, else NaN.
parseInt(value) ==
    IF value = "60" THEN Num(60)
    ELSE IF value \in {"5", "5a"} THEN Num(5)
    ELSE NaN

\* ---------------------------------------------------------------- parser
NullRef == "<null>"
NoType == "<none>"
NoError == [at |-> "none"]
NoDiagram == [none |-> TRUE]
NotValidated == [status |-> "none", errors |-> <<>>]

\* The diagram literal as it would be with other layout defaults.
NewDiagramLR ==
    [layout |-> [direction |-> "LR", ranksep |-> Num(100), nodesep |-> Num(30)],
     styles |-> EmptyObject,
     components |-> EmptyObject,
     containers |-> EmptyObject,
     relations |-> <<>>,
     annotations |-> EmptyObject]

\* The diagram literal of parse.
NewDiagram ==
    [layout |-> [direction |-> "TB", ranksep |-> Num(50), nodesep |-> Num(30)],
     styles |-> EmptyObject,
     components |-> EmptyObject,
     containers |-> EmptyObject,
     relations |-> <<>>,
     annotations |-> EmptyObject]

\* new DSLParser()
Constructed ==
    [tokens |-> <<>>, position |-> 0, currentToken |-> Null,
     diagram |-> NoDiagram, stack |-> <<>>, nextRef |-> 0, pc |-> "idle",
     error |-> NoError, result |-> NoDiagram, decls |-> <<>>, consumedAs |-> <<>>]

\* The parser instance and the running call, as one record.
Cur ==
    [tokens |-> tokens, position |-> position, currentToken |-> currentToken,
     diagram |-> diagram, stack |-> stack, nextRef |-> nextRef, pc |-> pc,
     error |-> error, result |-> result, decls |-> decls, consumedAs |-> consumedAs]

Set(m) ==
    /\ tokens' = m.tokens
    /\ position' = m.position
    /\ currentToken' = m.currentToken
    /\ diagram' = m.diagram
    /\ stack' = m.stack
    /\ nextRef' = m.nextRef
    /\ pc' = m.pc
    /\ error' = m.error
    /\ result' = m.result
    /\ decls' = m.decls
    /\ consumedAs' = m.consumedAs

Raised(m) == m.pc = "raised"

\* Throw as it would be if parse handed back what it had built so far.
ThrowPartial(m, site, msg) ==
    [m EXCEPT !.pc = "raised",
              !.result = m.diagram,
              !.error = [at |-> IF m.currentToken = Null THEN "EOF" ELSE "line",
                         line |-> IF m.currentToken = Null THEN 0 ELSE m.currentToken.line,
                         site |-> site,
                         message |-> msg]]

\* A throw inside the try of parse, and the catch that rethrows it as
\* `Parse error at line ${this.currentToken?.line || 'EOF'}: ...`.
Throw(m, site, msg) ==
    [m EXCEPT !.pc = "raised",
              !.error = [at |-> IF m.currentToken = Null THEN "EOF" ELSE "line",
                         line |-> IF m.currentToken = Null THEN 0 ELSE m.currentToken.line,
                         site |-> site,
                         message |-> msg]]

\* consume as it would be without the check of expectedType.
consumeUnchecked(m, expectedType) ==
    IF Raised(m) THEN m
    ELSE [m EXCEPT !.position = @ + 1,
                   !.currentToken = IF m.position + 1 < Len(m.tokens)
                                    THEN m.tokens[m.position + 2] ELSE Null,
                   !.consumedAs = Append(@, expectedType)]

\* consume(expectedType = null). As in a JavaScript call, the state the
\* call starts from is evaluated once, before the body runs.
consume(m0, expectedType) ==
    LET once(m) ==
        IF Raised(m) THEN m
        ELSE IF expectedType # NoType /\ m.currentToken.type # expectedType
        THEN Throw(m, "consume",
                   "Expected " \o expectedType \o ", got "
                   \o (IF m.currentToken = Null THEN "EOF" ELSE m.currentToken.type)
                   \o " (value: '"
                   \o (IF m.currentToken = Null THEN "" ELSE m.currentToken.value)
                   \o "')")
        ELSE [m EXCEPT !.position = @ + 1,
                       !.currentToken = IF m.position + 1 < Len(m.tokens)
                                        THEN m.tokens[m.position + 2] ELSE Null,
                       !.consumedAs = Append(@, expectedType)]
    IN CHOOSE r \in {once(m) : m \in {m0}} : TRUE

\* Evaluating this.currentToken.value: a TypeError when the input has ended.
Deref(m0) ==
    LET once(m) ==
        IF Raised(m) THEN m
        ELSE IF m.currentToken = Null
        THEN Throw(m, "TypeError", "Cannot read properties of null (reading 'value')")
        ELSE m
    IN CHOOSE r \in {once(m) : m \in {m0}} : TRUE

\* parse as it would be without `this.position = 0`.
parseBeginNoReset(m, input) ==
    LET toks == tokenize(input) IN
    [tokens |-> toks, position |-> m.position,
     currentToken |-> IF toks = <<>> THEN Null ELSE toks[1],
     diagram |-> NewDiagram, stack |-> <<>>, nextRef |-> 0, pc |-> "parsing",
     error |-> NoError, result |-> NoDiagram, decls |-> <<>>, consumedAs |-> <<>>]

\* parse(input), up to the statement loop.
parseBegin(m, input) ==
    LET toks == tokenize(input) IN
    [tokens |-> toks, position |-> 0,
     currentToken |-> IF toks = <<>> THEN Null ELSE toks[1],
     diagram |-> NewDiagram, stack |-> <<>>, nextRef |-> 0, pc |-> "parsing",
     error |-> NoError, result |-> NoDiagram, decls |-> <<>>, consumedAs |-> <<>>]

\* parse: the statement loop ends, the diagram is returned.
parseReturn(m) == [m EXCEPT !.pc = "returned", !.result = m.diagram]

\* The default branch as it would be if it skipped the token and went on.
unexpectedTokenSkipped(m) == consume(m, NoType)

\* parseStatement, default branch.
unexpectedToken(m) ==
    Throw(m, "parseStatement", "Unexpected token: " \o m.currentToken.value)

RECURSIVE layoutAttributes(_)
\* The while loop of parseLayout.
layoutAttributes(m0) ==
    LET once(m) ==
        IF Raised(m) \/ m.currentToken = Null \/ m.currentToken.type # "PROPERTY" THEN m
        ELSE LET property == m.currentToken.value
                 m1 == Deref(consume(consume(m, "PROPERTY"), "EQUALS"))
                 m2 == consume(m1, NoType)
                 value == m1.currentToken.value
                 layout == m2.diagram.layout
             IN IF Raised(m2) THEN m2
                ELSE layoutAttributes(
                       [m2 EXCEPT !.diagram.layout =
                          IF property = "direction" THEN [layout EXCEPT !.direction = value]
                          ELSE IF property = "ranksep" THEN [layout EXCEPT !.ranksep = parseInt(value)]
                          ELSE IF property = "nodesep" THEN [layout EXCEPT !.nodesep = parseInt(value)]
                          ELSE layout])
    IN CHOOSE r \in {once(m) : m \in {m0}} : TRUE

parseLayout(m) == layoutAttributes(consume(m, "KEYWORD"))

RECURSIVE styleAttributes(_, _)
\* The while loop of parseStyle; style is the record built so far.
styleAttributes(m0, style) ==
    LET once(m) ==
        IF Raised(m) \/ m.currentToken = Null \/ m.currentToken.type # "PROPERTY"
        THEN [m |-> m, obj |-> style]
        ELSE LET property == m.currentToken.value
                 m1 == Deref(consume(consume(m, "PROPERTY"), "EQUALS"))
                 m2 == consume(m1, NoType)
             IN IF Raised(m2) THEN [m |-> m2, obj |-> style]
                ELSE styleAttributes(m2, Put(style, property, m1.currentToken.value))
    IN CHOOSE r \in {once(m) : m \in {m0}} : TRUE

\* parseStyle as it would be if it went on from the record already stored.
parseStyleMerged(m) ==
    LET m1 == Deref(consume(m, "KEYWORD"))
        m2 == consume(m1, "IDENTIFIER")
        r == styleAttributes(m2, IF ~Raised(m1) /\ Has(m.diagram.styles, m1.currentToken.value)
                                 THEN m.diagram.styles.at[m1.currentToken.value]
                                 ELSE EmptyObject)
    IN IF Raised(r.m) THEN r.m
       ELSE [r.m EXCEPT !.diagram.styles = Put(@, m1.currentToken.value, r.obj)]

parseStyle(m) ==
    LET m1 == Deref(consume(m, "KEYWORD"))
        m2 == consume(m1, "IDENTIFIER")
        r == styleAttributes(m2, EmptyObject)
    IN IF Raised(r.m) THEN r.m
       ELSE [r.m EXCEPT !.diagram.styles = Put(@, m1.currentToken.value, r.obj)]

\* History: a declaration met by the parser. ref is the identity of the
\* container object it creates (-1 for a component), encl that of the
\* container object whose block holds it (-1 at top level).
Decl(m, kind, id, parentContainer) ==
    [kind |-> kind, id |-> id, parent |-> parentContainer,
     ref |-> IF kind = "container" THEN m.nextRef ELSE -1,
     encl |-> IF m.stack = <<>> THEN -1 ELSE m.stack[Len(m.stack)].ref]

\* The `if (parentContainer) { ... children.push(childId) }` tail shared by
\* parseComponent and parseContainer.
attachToParent(m, parentContainer, childId) ==
    IF Raised(m) \/ parentContainer = NullRef THEN m
    ELSE IF ~Truthy(m.diagram.containers, parentContainer)
    THEN Throw(m, "parent", "Parent container '" \o parentContainer \o "' not found")
    ELSE IF Has(m.diagram.containers, parentContainer)
    THEN [m EXCEPT !.diagram.containers.at[parentContainer].children = Append(@, childId)]
    ELSE m  \* an inherited member: the push lands outside the diagram

RECURSIVE componentBody(_, _)
\* The while loop of parseComponent; props is component.properties so far.
componentBody(m0, props) ==
    LET once(m) ==
        IF Raised(m) \/ m.currentToken = Null \/ m.currentToken.type = "RBRACE"
        THEN [m |-> m, obj |-> props]
        ELSE IF m.currentToken.type = "PROPERTY"
        THEN LET property == m.currentToken.value
                 m1 == Deref(consume(m, "PROPERTY"))
                 m2 == consume(m1, NoType)
             IN IF Raised(m2) THEN [m |-> m2, obj |-> props]
                ELSE componentBody(m2, Put(props, property, m1.currentToken.value))
        ELSE componentBody(consume(m, NoType), props)
    IN CHOOSE r \in {once(m) : m \in {m0}} : TRUE

\* parseComponent as it would be with `parent: componentId`.
parseComponentSelfParent(m, parentContainer) ==
    LET m1 == Deref(consume(m, "KEYWORD"))
        componentId == m1.currentToken.value
        m2 == consume(consume(m1, "IDENTIFIER"), "LBRACE")
        r == componentBody(m2, EmptyObject)
        m3 == consume(r.m, "RBRACE")
        m4 == attachToParent(m3, parentContainer, componentId)
        component == [id |-> componentId, type |-> "component",
                      properties |-> r.obj,
                      parent |-> IF parentContainer = NullRef THEN NullRef ELSE componentId]
    IN IF Raised(m4) THEN m4
       ELSE [m4 EXCEPT !.diagram.components = Put(@, componentId, component),
                       !.decls = Append(@, Decl(m, "component", componentId, parentContainer))]

\* parseComponent as it would be if a nested component were listed in its
\* parent's children without being put into diagram.components.
parseComponentListedOnly(m, parentContainer) ==
    LET m1 == Deref(consume(m, "KEYWORD"))
        componentId == m1.currentToken.value
        m2 == consume(consume(m1, "IDENTIFIER"), "LBRACE")
        r == componentBody(m2, EmptyObject)
        m3 == consume(r.m, "RBRACE")
        m4 == attachToParent(m3, parentContainer, componentId)
        component == [id |-> componentId, type |-> "component",
                      properties |-> r.obj, parent |-> parentContainer]
    IN IF Raised(m4) THEN m4
       ELSE [m4 EXCEPT !.diagram.components =
                           IF parentContainer = NullRef THEN Put(@, componentId, component)
                           ELSE @,
                       !.decls = Append(@, Decl(m, "component", componentId, parentContainer))]

\* parseComponent(diagram, parentContainer = null)
parseComponent(m, parentContainer) ==
    LET m1 == Deref(consume(m, "KEYWORD"))
        componentId == m1.currentToken.value
        m2 == consume(consume(m1, "IDENTIFIER"), "LBRACE")
        r == componentBody(m2, EmptyObject)
        m3 == consume(r.m, "RBRACE")
        m4 == attachToParent(m3, parentContainer, componentId)
        component == [id |-> componentId, type |-> "component",
                      properties |-> r.obj, parent |-> parentContainer]
    IN IF Raised(m4) THEN m4
       ELSE [m4 EXCEPT !.diagram.components = Put(@, componentId, component),
                       !.decls = Append(@, Decl(m, "component", componentId, parentContainer))]

\* parseContainer as it would be if the container were not put into the
\* diagram before its body is parsed.
parseContainerOpenUnregistered(m, parentContainer) ==
    LET m1 == Deref(consume(m, "KEYWORD"))
        containerId == m1.currentToken.value
        m2 == consume(consume(m1, "IDENTIFIER"), "LBRACE")
    IN IF Raised(m2) THEN m2
       ELSE [m2 EXCEPT !.stack = Append(@, [containerId |-> containerId,
                                            parentContainer |-> parentContainer,
                                            ref |-> m.nextRef]),
                       !.nextRef = @ + 1,
                       !.decls = Append(@, Decl(m, "container", containerId, parentContainer))]

\* parseContainer(diagram, parentContainer = null) up to its while loop: the
\* header, the new container object and its registration. ref is the
\* identity of the object, which the local `container` keeps referring to.
parseContainerOpen(m, parentContainer) ==
    LET m1 == Deref(consume(m, "KEYWORD"))
        containerId == m1.currentToken.value
        m2 == consume(consume(m1, "IDENTIFIER"), "LBRACE")
        container == [id |-> containerId, type |-> "container",
                      properties |-> EmptyObject, children |-> <<>>,
                      parent |-> parentContainer, ref |-> m.nextRef]
    IN IF Raised(m2) THEN m2
       ELSE [m2 EXCEPT !.diagram.containers = Put(@, containerId, container),
                       !.stack = Append(@, [containerId |-> containerId,
                                            parentContainer |-> parentContainer,
                                            ref |-> m.nextRef]),
                       !.nextRef = @ + 1,
                       !.decls = Append(@, Decl(m, "container", containerId, parentContainer))]

Top(m) == m.stack[Len(m.stack)]

\* parseContainer, loop body, PROPERTY branch. The write goes to the local
\* `container`: it shows in the diagram only while that object is still the
\* one registered under its id.
containerProperty(m) ==
    LET f == Top(m)
        property == m.currentToken.value
        m1 == Deref(consume(m, "PROPERTY"))
        m2 == consume(m1, NoType)
    IN IF Raised(m2) THEN m2
       ELSE IF Has(m2.diagram.containers, f.containerId)
               /\ m2.diagram.containers.at[f.containerId].ref = f.ref
       THEN [m2 EXCEPT !.diagram.containers.at[f.containerId].properties =
                           Put(@, property, m1.currentToken.value)]
       ELSE m2

\* The last branch as it would be without the consume call.
containerSkipStuck(m) == m

\* parseContainer, loop body, last branch: skip unknown tokens.
containerSkip(m) == consume(m, NoType)

\* parseContainer after its while loop.
parseContainerClose(m) ==
    LET f == Top(m)
        m1 == consume(m, "RBRACE")
        m2 == attachToParent(m1, f.parentContainer, f.containerId)
    IN IF Raised(m2) THEN m2
       ELSE [m2 EXCEPT !.stack = SubSeq(@, 1, Len(@) - 1)]

\* parseRelation as it would be if the parser checked the endpoints itself.
parseRelationChecked(m) ==
    LET m1 == Deref(consume(m, "KEYWORD"))
        from == m1.currentToken.value
        m2 == Deref(consume(consume(m1, "IDENTIFIER"), "ARROW"))
        to == m2.currentToken.value
        m3 == consume(m2, "IDENTIFIER")
    IN IF Raised(m3) THEN m3
       ELSE IF ~Truthy(m3.diagram.components, from) /\ ~Truthy(m3.diagram.containers, from)
       THEN Throw(m3, "reference", "Relation source '" \o from \o "' not found")
       ELSE [m3 EXCEPT !.diagram.relations =
                           Append(@, [from |-> from, to |-> to, label |-> ""])]

\* parseRelation as it would be if a from/to pair were kept only once.
parseRelationUnique(m) ==
    LET m1 == Deref(consume(m, "KEYWORD"))
        from == m1.currentToken.value
        m2 == Deref(consume(consume(m1, "IDENTIFIER"), "ARROW"))
        to == m2.currentToken.value
        m3 == consume(m2, "IDENTIFIER")
        hasLabel == ~Raised(m3) /\ m3.currentToken # Null /\ m3.currentToken.type = "COLON"
        m4 == Deref(consume(m3, "COLON"))
        m5 == IF hasLabel THEN consume(m4, NoType) ELSE m3
        label == IF hasLabel THEN m4.currentToken.value ELSE ""
    IN IF Raised(m5) THEN m5
       ELSE IF \E i \in 1..Len(m5.diagram.relations) :
                   m5.diagram.relations[i].from = from /\ m5.diagram.relations[i].to = to
       THEN m5
       ELSE [m5 EXCEPT !.diagram.relations =
                           Append(@, [from |-> from, to |-> to, label |-> label])]

\* parseRelation(diagram)
parseRelation(m) ==
    LET m1 == Deref(consume(m, "KEYWORD"))
        from == m1.currentToken.value
        m2 == Deref(consume(consume(m1, "IDENTIFIER"), "ARROW"))
        to == m2.currentToken.value
        m3 == consume(m2, "IDENTIFIER")
        hasLabel == ~Raised(m3) /\ m3.currentToken # Null /\ m3.currentToken.type = "COLON"
        m4 == Deref(consume(m3, "COLON"))
        m5 == IF hasLabel THEN consume(m4, NoType) ELSE m3
        label == IF hasLabel THEN m4.currentToken.value ELSE ""
    IN IF Raised(m5) THEN m5
       ELSE [m5 EXCEPT !.diagram.relations =
                           Append(@, [from |-> from, to |-> to, label |-> label])]

RECURSIVE annotationBody(_, _)
\* The while loop of parseAnnotation.
annotationBody(m0, annotation) ==
    LET once(m) ==
        IF Raised(m) \/ m.currentToken = Null \/ m.currentToken.type = "RBRACE"
        THEN [m |-> m, obj |-> annotation]
        ELSE IF m.currentToken.type = "PROPERTY"
        THEN LET property == m.currentToken.value
                 m1 == Deref(consume(m, "PROPERTY"))
                 m2 == consume(m1, NoType)
             IN IF Raised(m2) THEN [m |-> m2, obj |-> annotation]
                ELSE annotationBody(m2, Put(annotation, property, m1.currentToken.value))
        ELSE annotationBody(consume(m, NoType), annotation)
    IN CHOOSE r \in {once(m) : m \in {m0}} : TRUE

\* parseAnnotation(diagram)
parseAnnotation(m) ==
    LET m1 == Deref(consume(m, "KEYWORD"))
        targetId == m1.currentToken.value
        m2 == consume(consume(m1, "IDENTIFIER"), "LBRACE")
        r == annotationBody(m2, EmptyObject)
        m3 == consume(r.m, "RBRACE")
    IN IF Raised(m3) THEN m3
       ELSE [m3 EXCEPT !.diagram.annotations = Put(@, targetId, r.obj)]

\* Which piece of code runs next: the statement loop of parse with the
\* switch of parseStatement at top level, the while loop of parseContainer
\* inside a container block.
Dispatch(m) ==
    IF m.pc # "parsing" THEN "none"
    ELSE IF m.stack = <<>>
    THEN IF m.currentToken = Null THEN "return"
         ELSE IF m.currentToken.value \in keywords THEN m.currentToken.value
         ELSE "unexpected"
    ELSE IF m.currentToken = Null \/ m.currentToken.type = "RBRACE" THEN "close"
    ELSE IF m.currentToken.type = "PROPERTY" THEN "property"
    ELSE IF m.currentToken.value = "component" THEN "nestedComponent"
    ELSE IF m.currentToken.value = "container" THEN "nestedContainer"
    ELSE "skip"

\* One step of a running parse call.
Step(m) ==
    LET d == Dispatch(m) IN
    CASE d = "return" -> parseReturn(m)
      [] d = "layout" -> parseLayout(m)
      [] d = "style" -> parseStyle(m)
      [] d = "component" -> parseComponent(m, NullRef)
      [] d = "container" -> parseContainerOpen(m, NullRef)
      [] d = "relation" -> parseRelation(m)
      [] d = "annotation" -> parseAnnotation(m)
      [] d = "unexpected" -> unexpectedToken(m)
      [] d = "close" -> parseContainerClose(m)
      [] d = "property" -> containerProperty(m)
      [] d = "nestedComponent" -> parseComponent(m, Top(m).containerId)
      [] d = "nestedContainer" -> parseContainerOpen(m, Top(m).containerId)
      [] d = "skip" -> containerSkip(m)
      [] OTHER -> m

RECURSIVE Run(_)
\* A parse call run to its end.
Run(m) == IF m.pc = "parsing" THEN Run(Step(m)) ELSE m

\* parse(input) on a parser in state m, as one function.
parse(m, input) == Run(parseBegin(m, input))

\* ------------------------------------------------------------- validator
RECURSIVE relationErrors(_, _)
relationErrors(d, i) ==
    IF i > Len(d.relations) THEN <<>>
    ELSE LET relation == d.relations[i] IN
         (IF ~Truthy(d.components, relation.from) /\ ~Truthy(d.containers, relation.from)
          THEN <<"Relation source '" \o relation.from \o "' not found">> ELSE <<>>)
         \o (IF ~Truthy(d.components, relation.to) /\ ~Truthy(d.containers, relation.to)
             THEN <<"Relation target '" \o relation.to \o "' not found">> ELSE <<>>)
         \o relationErrors(d, i + 1)

RECURSIVE annotationErrors(_, _)
annotationErrors(d, i) ==
    IF i > Len(d.annotations.keys) THEN <<>>
    ELSE LET targetId == d.annotations.keys[i] IN
         (IF ~Truthy(d.components, targetId) /\ ~Truthy(d.containers, targetId)
          THEN <<"Annotation target '" \o targetId \o "' not found">> ELSE <<>>)
         \o annotationErrors(d, i + 1)

RECURSIVE styleErrors(_, _)
styleErrors(d, i) ==
    IF i > Len(d.components.keys) THEN <<>>
    ELSE LET component == d.components.at[d.components.keys[i]]
             hasType == Has(component.properties, "type")
                        /\ component.properties.at["type"] # ""
         IN (IF hasType /\ ~Truthy(d.styles, component.properties.at["type"])
             THEN <<"Style '" \o component.properties.at["type"]
                    \o "' not found for component '" \o component.id \o "'">>
             ELSE <<>>)
            \o styleErrors(d, i + 1)

\* validate(diagram): the error raised carries the messages joined by "\n".
validate(d) ==
    LET errors == relationErrors(d, 1) \o annotationErrors(d, 1) \o styleErrors(d, 1)
    IN IF Len(errors) > 0 THEN [status |-> "raised", errors |-> errors]
       ELSE [status |-> "valid", errors |-> <<>>]

\* -------------------------------------------------------------- renderer
NoLabel == "<no label>"

\* createComponentMesh, `if (component.properties.label)`: the text of the
\* label the mesh of a component is given, NoLabel when it is given none.
componentLabel(component) ==
    IF Has(component.properties, "label") /\ component.properties.at["label"] # ""
    THEN component.properties.at["label"]
    ELSE NoLabel

\* this.gridSize
gridSize == 60
\* `const margin = 30` of calculateContainerLayout
margin == 30
\* The containerSize of a position that was given none.
NoSize == [none |-> TRUE]

Max(a, b) == IF a >= b THEN a ELSE b
Abs(a) == IF a < 0 THEN 0 - a ELSE a
\* Math.ceil(Math.sqrt(n))
CeilSqrt(n) == CHOOSE k \in 0..n : k * k >= n /\ \A j \in 0..(k - 1) : j * j < n

RECURSIVE childGrid(_, _, _, _, _)
\* The for loop of calculateContainerLayout from index i (0-based) on; g
\* holds childX, childZ, maxX, maxZ, currentRowHeight and childPositions.
childGrid(children, i, itemsPerRow, componentSpacing, g) ==
    IF i >= Len(children) THEN g
    ELSE LET newRow == i % itemsPerRow = 0 /\ i > 0
             childX == IF newRow THEN 0 - componentSpacing
                       ELSE IF i > 0 THEN g.childX + componentSpacing ELSE g.childX
             childZ == IF newRow THEN g.childZ + g.currentRowHeight + componentSpacing
                       ELSE g.childZ
             rowHeight == IF newRow THEN 0 ELSE g.currentRowHeight
         IN childGrid(children, i + 1, itemsPerRow, componentSpacing,
                      [childX |-> childX, childZ |-> childZ,
                       maxX |-> Max(g.maxX, Abs(childX)),
                       maxZ |-> Max(g.maxZ, Abs(childZ)),
                       currentRowHeight |-> Max(rowHeight, (componentSpacing * 4) \div 5),
                       childPositions |-> Put(g.childPositions, children[i + 1],
                                              [x |-> childX, z |-> childZ])])

\* calculateContainerLayout(containerId, container, diagram, spacing)
calculateContainerLayout(container, spacing) ==
    LET children == container.children
        componentSpacing == spacing \div 2
        g == childGrid(children, 0, Max(2, CeilSqrt(Len(children))), componentSpacing,
                       [childX |-> 0 - componentSpacing, childZ |-> 0, maxX |-> 0, maxZ |-> 0,
                        currentRowHeight |-> 0, childPositions |-> EmptyObject])
    IN [childPositions |-> g.childPositions,
        size |-> [width |-> Max((gridSize * 9) \div 5,
                                g.maxX * 2 + margin * 2 + componentSpacing),
                  depth |-> Max((gridSize * 6) \div 5,
                                g.maxZ + g.currentRowHeight + margin * 2)]]

RECURSIVE placeChildren(_, _, _, _, _, _)
\* calculateLayout, the loop over the child positions of a top-level
\* container placed at (x, z), from the i-th child position on.
placeChildren(d, childPositions, i, x, z, layout) ==
    IF i > Len(childPositions.keys) THEN layout
    ELSE LET childId == childPositions.keys[i]
             pos == [x |-> x + childPositions.at[childId].x, y |-> 5,
                          z |-> z + childPositions.at[childId].z, containerSize |-> NoSize]
         IN placeChildren(d, childPositions, i + 1, x, z,
                IF Truthy(d.components, childId)
                THEN [layout EXCEPT !.components = Put(@, childId, pos)]
                ELSE IF Truthy(d.containers, childId)
                THEN [layout EXCEPT !.containers = Put(@, childId, pos)]
                ELSE layout)

RECURSIVE layoutContainers(_, _, _)
\* calculateLayout, the loop over diagram.containers from the i-th key on;
\* c holds x, z and the layout so far.
layoutContainers(d, i, c) ==
    IF i > Len(d.containers.keys) THEN c
    ELSE LET id == d.containers.keys[i]
             container == d.containers.at[id]
             spacing == (gridSize * 3) \div 2
             containerInfo == calculateContainerLayout(container, spacing)
             placed == placeChildren(d, containerInfo.childPositions, 1, c.x, c.z,
                           [c.layout EXCEPT !.containers =
                               Put(@, id, [x |-> c.x, y |-> 0, z |-> c.z,
                                           containerSize |-> NoSize])])
             x == c.x + containerInfo.size.width + spacing
         IN IF container.parent # NullRef THEN layoutContainers(d, i + 1, c)
            ELSE layoutContainers(d, i + 1,
                     [x |-> IF x > spacing * 4 THEN 0 ELSE x,
                      z |-> IF x > spacing * 4 THEN c.z + containerInfo.size.depth + spacing
                            ELSE c.z,
                      layout |-> [placed EXCEPT !.containers.at[id].containerSize =
                                                    containerInfo.size]])

RECURSIVE layoutComponents(_, _, _)
\* calculateLayout, the loop over diagram.components from the i-th key on.
layoutComponents(d, i, c) ==
    IF i > Len(d.components.keys) THEN c
    ELSE LET id == d.components.keys[i]
             spacing == (gridSize * 3) \div 2
             x == c.x + spacing
         IN IF d.components.at[id].parent # NullRef
            THEN layoutComponents(d, i + 1, c)
            ELSE layoutComponents(d, i + 1,
                     [x |-> IF x > spacing * 3 THEN 0 ELSE x,
                      z |-> IF x > spacing * 3 THEN c.z + spacing ELSE c.z,
                      layout |-> [c.layout EXCEPT !.components =
                                     Put(@, id, [x |-> c.x, y |-> 0, z |-> c.z,
                                                 containerSize |-> NoSize])]])

\* calculateLayout(diagram)
calculateLayout(d) ==
    layoutComponents(d, 1,
        layoutContainers(d, 1,
            [x |-> 0, z |-> 0,
             layout |-> [components |-> EmptyObject, containers |-> EmptyObject]])).layout

\* No object: null for selectedObject, hoveredObject and draggedObject.
NoObject == [id |-> NullRef]
NoLink == "<no link>"

\* The mesh render creates for the component or container id: its
\* userData, the link being that of userData.annotation.
Mesh(d, id, type) ==
    [id |-> id, type |-> type,
     link |-> IF Has(d.annotations, id) /\ Has(d.annotations.at[id], "link")
                 /\ d.annotations.at[id].at["link"] # ""
              THEN d.annotations.at[id].at["link"] ELSE NoLink]

\* The ids render creates a component mesh for: `if (position)`.
ComponentMeshes(d, layout) ==
    {id \in DOMAIN d.components.at : Truthy(layout.components, id)}

\* The ids render creates a container mesh for.
ContainerMeshes(d, layout) ==
    {id \in DOMAIN d.containers.at : Truthy(layout.containers, id)}

\* The renderer as its constructor leaves it.
NewRenderer ==
    [currentDiagram |-> NoDiagram, scene |-> {}, meshes |-> <<>>, connections |-> <<>>,
     selectedObject |-> NoObject, hoveredObject |-> NoObject, draggedObject |-> NoObject,
     isDragging |-> FALSE, isPanning |-> FALSE]

\* clear()
clear(r) ==
    [r EXCEPT !.scene = {}, !.meshes = <<>>, !.connections = <<>>,
              !.selectedObject = NoObject, !.hoveredObject = NoObject,
              !.draggedObject = NoObject, !.isDragging = FALSE]

\* render(diagram): scene holds the meshes added to the scene, meshes is
\* the map from id to mesh (a container mesh replaces the component mesh of
\* the same id), connections the connections created, in order.
render(r, d) ==
    LET layout == calculateLayout(d)
        components == ComponentMeshes(d, layout)
        containers == ContainerMeshes(d, layout)
        meshes == [id \in components \cup containers |->
                      Mesh(d, id, IF id \in containers THEN "container" ELSE "component")]
        drawn == SelectSeq(d.relations,
                           LAMBDA relation : relation.from \in DOMAIN meshes
                                             /\ relation.to \in DOMAIN meshes)
    IN [clear(r) EXCEPT
           !.currentDiagram = d,
           !.scene = {Mesh(d, id, "component") : id \in components}
                         \cup {Mesh(d, id, "container") : id \in containers},
           !.meshes = meshes,
           !.connections = [k \in 1..Len(drawn) |->
                               [fromId |-> drawn[k].from, toId |-> drawn[k].to]]]

\* An object of the scene that is no component or container mesh (a grid
\* line, a label sprite, a connection): its userData has no id.
OtherObject == [id |-> NullRef, type |-> NoType, link |-> NoLink]

\* findBestHoverTarget(intersects): the first component hit, else the first
\* container hit, else null.
findBestHoverTarget(intersects) ==
    LET components == SelectSeq(intersects, LAMBDA o : o.id # NullRef /\ o.type = "component")
        containers == SelectSeq(intersects, LAMBDA o : o.id # NullRef /\ o.type = "container")
    IN IF components # <<>> THEN components[1]
       ELSE IF containers # <<>> THEN containers[1]
       ELSE NoObject

\* startDrag(object, intersectionPoint)
startDrag(r, object) ==
    [r EXCEPT !.isDragging = TRUE, !.draggedObject = object, !.hoveredObject = NoObject]

\* endDrag()
endDrag(r) == [r EXCEPT !.isDragging = FALSE, !.draggedObject = NoObject]

\* startCameraPan(event)
startCameraPan(r) == [r EXCEPT !.isPanning = TRUE, !.hoveredObject = NoObject]

\* endCameraPan()
endCameraPan(r) == [r EXCEPT !.isPanning = FALSE]

\* onMouseDown(event), intersects being what the raycaster returns.
onMouseDown(r, button, intersects) ==
    IF button # 0 THEN r
    ELSE IF intersects # <<>> /\ findBestHoverTarget(intersects) # NoObject
    THEN startDrag(r, findBestHoverTarget(intersects))
    ELSE startCameraPan(r)

\* onMouseUp(event)
onMouseUp(r) ==
    IF r.isDragging THEN endDrag(r)
    ELSE IF r.isPanning THEN endCameraPan(r)
    ELSE r

\* onClick(event), intersects being what the raycaster returns.
onClick(r, intersects) ==
    IF r.isDragging THEN r
    ELSE IF intersects # <<>>
    THEN IF intersects[1].id # NullRef
         THEN [r EXCEPT !.selectedObject = intersects[1]]
         ELSE r
    ELSE [r EXCEPT !.selectedObject = NoObject]

\* The link onClick hands to window.open, NoLink when it opens none.
OpenedBy(r, intersects) ==
    IF r.isDragging THEN NoLink
    ELSE IF intersects # <<>> /\ intersects[1].id # NullRef
    THEN intersects[1].link
    ELSE NoLink

\* getObjectData(objectId), for the id of a mesh: an own key of
\* components or of containers.
getObjectData(r, objectId) ==
    IF Has(r.currentDiagram.components, objectId)
    THEN r.currentDiagram.components.at[objectId]
    ELSE r.currentDiagram.containers.at[objectId]

\* String.prototype.toLowerCase on the labels of the model's texts.
toLowerCase(label) ==
    IF label = "Data" THEN "data"
    ELSE IF label = "A" THEN "a"
    ELSE IF label = "B" THEN "b"
    ELSE IF label = "C" THEN "c"
    ELSE IF label = "L" THEN "l"
    ELSE label

\* String.prototype.includes for the words isValidContainerAssignment
\* looks for: the lower-cased labels of the model's texts are one letter
\* or one of these words, so they include a word when they are that word.
includes(label, word) == label = word

\* isValidContainerAssignment(componentId, newContainerId), for the id of
\* a component mesh.
isValidContainerAssignment(r, componentId, newContainerId) ==
    IF r.currentDiagram = NoDiagram THEN FALSE
    ELSE IF newContainerId = NullRef THEN TRUE
    ELSE IF ~Has(r.currentDiagram.components, componentId)
            \/ ~Has(r.currentDiagram.containers, newContainerId)
    THEN FALSE
    ELSE LET component == r.currentDiagram.components.at[componentId]
             newContainer == r.currentDiagram.containers.at[newContainerId]
             componentType == IF Has(component.properties, "type")
                              THEN component.properties.at["type"] ELSE NoType
             containerLabel == IF Has(newContainer.properties, "label")
                               THEN toLowerCase(newContainer.properties.at["label"]) ELSE ""
         IN IF componentType = "db" /\ ~includes(containerLabel, "data") THEN FALSE
            ELSE IF componentType = "api" /\ includes(containerLabel, "data") THEN FALSE
            ELSE IF componentType = "cache" /\ includes(containerLabel, "backend")
                    /\ includes(containerLabel, "microservice")
            THEN FALSE
            ELSE TRUE

\* updateComponentParentContainer(componentId, newContainerId): the
\* children lists and the parent field of this.currentDiagram are changed.
updateComponentParentContainer(r, componentId, newContainerId) ==
    IF r.currentDiagram = NoDiagram \/ ~Has(r.currentDiagram.components, componentId) THEN r
    ELSE LET d == r.currentDiagram
             oldContainerId == d.components.at[componentId].parent
             without ==
                 IF oldContainerId # NullRef /\ Has(d.containers, oldContainerId)
                 THEN [d EXCEPT !.containers.at[oldContainerId].children =
                                    SelectSeq(@, LAMBDA id : id # componentId)]
                 ELSE d
             with ==
                 IF newContainerId # NullRef /\ Has(without.containers, newContainerId)
                    /\ \A i \in 1..Len(without.containers.at[newContainerId].children) :
                          without.containers.at[newContainerId].children[i] # componentId
                 THEN [without EXCEPT !.containers.at[newContainerId].children =
                                          Append(@, componentId)]
                 ELSE without
         IN IF oldContainerId = newContainerId THEN r
            ELSE [r EXCEPT !.currentDiagram =
                               [with EXCEPT !.components.at[componentId].parent = newContainerId]]

\* updateConnections(objectId): the connections of objectId are removed,
\* then created again, after the others, in the order of the relations.
updateConnections(r, objectId) ==
    LET kept == SelectSeq(r.connections,
                          LAMBDA c : c.fromId # objectId /\ c.toId # objectId)
        again == IF r.currentDiagram = NoDiagram THEN <<>>
                 ELSE SelectSeq(r.currentDiagram.relations,
                                LAMBDA relation :
                                    (relation.from = objectId \/ relation.to = objectId)
                                    /\ relation.from \in DOMAIN r.meshes
                                    /\ relation.to \in DOMAIN r.meshes)
    IN [r EXCEPT !.connections =
                     kept \o [k \in 1..Len(again) |->
                                 [fromId |-> again[k].from, toId |-> again[k].to]]]

RECURSIVE updateConnectionsForMovedObject(_, _)
RECURSIVE updateConnectionsOfChildren(_, _, _)
\* The forEach of updateConnectionsForMovedObject, from the i-th child on.
updateConnectionsOfChildren(r, children, i) ==
    IF i > Len(children) THEN r
    ELSE LET childId == children[i]
             r1 == updateConnections(r, childId)
             r2 == IF r1.currentDiagram # NoDiagram /\ Has(r1.currentDiagram.containers, childId)
                   THEN updateConnectionsForMovedObject(r1, childId)
                   ELSE r1
         IN updateConnectionsOfChildren(r2, children, i + 1)

\* updateConnectionsForMovedObject(objectId)
updateConnectionsForMovedObject(r, objectId) ==
    LET r1 == updateConnections(r, objectId)
    IN IF r1.currentDiagram # NoDiagram /\ Has(r1.currentDiagram.containers, objectId)
       THEN updateConnectionsOfChildren(r1, r1.currentDiagram.containers.at[objectId].children, 1)
       ELSE r1

\* forceEndDragAndSnapBack()
forceEndDragAndSnapBack(r) ==
    IF r.draggedObject = NoObject \/ r.draggedObject.type # "component" THEN r
    ELSE endDrag(r)

\* What the geometry decides in handleDrag.
NoDrag == [hitsPlane |-> FALSE, wouldExitContainer |-> FALSE, newContainer |-> NullRef]

\* handleDrag(event): drag.hitsPlane is whether the ray meets the drag
\* plane, drag.wouldExitContainer the test against the parent's bounds,
\* drag.newContainer what findContainerAtPosition returns.  Positions are
\* not part of the model, so moving a mesh changes nothing here.
handleDrag(r, drag) ==
    IF ~r.isDragging \/ r.draggedObject = NoObject THEN r
    ELSE IF ~drag.hitsPlane THEN r
    ELSE LET id == r.draggedObject.id IN
         IF r.draggedObject.type = "component"
         THEN LET componentData == getObjectData(r, id) IN
              IF componentData.parent # NullRef
              THEN IF componentData.parent \in DOMAIN r.meshes /\ drag.wouldExitContainer
                   THEN forceEndDragAndSnapBack(r)
                   ELSE updateConnectionsForMovedObject(r, id)
              ELSE IF drag.newContainer # NullRef
                      /\ isValidContainerAssignment(r, id, drag.newContainer)
              THEN updateConnectionsForMovedObject(
                       updateComponentParentContainer(r, id, drag.newContainer), id)
              ELSE IF drag.newContainer # NullRef THEN r
              ELSE updateConnectionsForMovedObject(r, id)
         ELSE updateConnectionsForMovedObject(r, id)

\* onMouseMove(event), intersects being what the raycaster returns.
onMouseMove(r, intersects, drag) ==
    IF r.isPanning THEN r
    ELSE IF r.isDragging /\ r.draggedObject # NoObject THEN handleDrag(r, drag)
    ELSE IF r.isDragging THEN r
    ELSE LET target == findBestHoverTarget(intersects) IN
         IF intersects # <<>> /\ target # NoObject
         THEN [r EXCEPT !.hoveredObject = target]
         ELSE [r EXCEPT !.hoveredObject = NoObject]

\* ----------------------------------------------------------- application
NoItem == [none |-> TRUE]
NoMessage == [none |-> TRUE]

\* The app as its constructor leaves it.  stored is the identity of the
\* object currentDiagram refers to (the number of the handleParse call that
\* parsed it), loading what showLoading last set, shown what the error
\* panel shows, timers the callbacks renderDiagram has scheduled and that
\* have not run yet, each resuming the handleParse call that awaits it.
NewApp ==
    [currentDiagram |-> NoDiagram, stored |-> 0, phase |-> "ready", loading |-> FALSE,
     shown |-> NoMessage, timers |-> <<>>]

NoHistory ==
    [lastEvent |-> "none", ended |-> "none", opened |-> NoLink, failed |-> {},
     rendered |-> 0, saved |-> 0]

\* handleParse from `showLoading(true)` up to the call of parse.
handleParseBegin(a) == [a EXCEPT !.phase = "try", !.loading = TRUE, !.shown = NoMessage]

\* handleParse with an editor that is empty once trimmed.
handleParseEmpty(a) ==
    [a EXCEPT !.shown = [message |-> "Please enter DSL content or load a file"]]

\* Whether the try block of handleParse got past parse and validate: m is
\* the parser after parse, v the outcome of validate.
Passed(m, v) == m.pc = "returned" /\ v.status = "valid"

\* handleParse as it would be if it stored what parse returned without
\* waiting for validate.
handleParseEndUnvalidated(a, m, v, dslContent, call) ==
    IF m.pc = "returned"
    THEN [a EXCEPT !.currentDiagram = m.result, !.stored = call, !.phase = "ready",
                   !.timers = Append(@, [diagram |-> m.result, dslContent |-> dslContent,
                                         call |-> call])]
    ELSE [a EXCEPT !.phase = "ready", !.loading = FALSE, !.shown = [message |-> m.error]]

\* handleParse after parse and validate have run, up to its await or,
\* when one of them threw, through catch and finally.
handleParseEnd(a, m, v, dslContent, call) ==
    IF Passed(m, v)
    THEN [a EXCEPT !.currentDiagram = m.result, !.stored = call, !.phase = "ready",
                   !.timers = Append(@, [diagram |-> m.result, dslContent |-> dslContent,
                                         call |-> call])]
    ELSE [a EXCEPT !.phase = "ready", !.loading = FALSE,
                   !.shown = IF m.pc = "raised" THEN [message |-> m.error]
                             ELSE [message |-> v.errors]]

\* The callback of renderDiagram has run and handleParse has resumed after
\* its await: the timer is gone, finally has run.
handleParseResume(a) == [a EXCEPT !.timers = Tail(@), !.loading = FALSE]

\* saveDiagram(dslContent): setItem stores the text, or throws (storage
\* full or disabled) and the item stays as it was.
saveDiagram(item, dslContent, stores) == IF stores THEN [dsl |-> dslContent] ELSE item

\* ---------------------------------------------------------------- inputs
\* Source lines the texts are made of.
LineComment == <<Blank, "/", "/", Blank, "c">>
LineLayout == <<"layout", Blank, "direction", "=", "LR", Blank, "ranksep", "=", "60">>
LineStyle == <<"style", Blank, "s", Blank, "color", "=", "#", "4CAF50", Blank, "icon", "=", "@">>
LineComponentB == <<"component", Blank, "b", Blank, "{", Blank, "type", Blank, "s", Blank, "}">>
LineComponentA == <<"component", Blank, "a", Blank, "{", Blank, "label", Blank, Quote, "L", Quote,
                    Blank, "type", Blank, "t", Blank, "}">>
LineComponentOpen == <<"component", Blank, "a", Blank, "{">>
LineContainerA == <<"container", Blank, "a", Blank, "{", Blank, "label", Blank, Quote, "A", Quote>>
LineContainerB == <<"container", Blank, "b", Blank, "{", Blank, "component", Blank, "a", Blank,
                    "{", Blank, "}", Blank, "x">>
LineNested == <<"container", Blank, "a", Blank, "{", Blank, "container", Blank, "a", Blank,
                "{", Blank, "}">>
LineClose == <<"}">>
LineCloseBoth == <<"}", Blank, "}">>
LineRelation == <<"relation", Blank, "a", Blank, "-", ">", Blank, "b">>
LineRelationProto == <<"relation", Blank, "toString", Blank, "-", ">", Blank, "b", Blank, ":",
                       Blank, Quote, "x", Quote>>
LineAnnotation == <<"annotation", Blank, "a", Blank, "{", Blank, "tooltip", Blank, Quote, "t",
                    Quote, Blank, "}">>
LineAnnotationOpen == <<"annotation", Blank, "c", Blank, "{">>
LineUnknown == <<"@", Blank, "b">>
LineBadId == <<"component", Blank, "5a", Blank, "{", Blank, "}">>
LineLabel == <<"label", Blank, Quote, "L", Quote>>

SourceLines ==
    {LineComment, LineLayout, LineStyle, LineComponentB, LineComponentA, LineComponentOpen,
     LineContainerA, LineContainerB, LineNested, LineClose, LineCloseBoth, LineRelation,
     LineRelationProto, LineAnnotation, LineAnnotationOpen, LineUnknown, LineBadId, LineLabel}

\* The texts a new parser is given: one to MaxLines lines.
Texts == UNION {[1..n -> SourceLines] : n \in 1..MaxLines}

\* The texts of the calls followed to their end.
TerminationTexts == UNION {[1..n -> SourceLines] : n \in 1..MaxTerminationLines}

\* Source lines of the texts given to a parser that is used again. The
\* grammar is not line-oriented: one line may hold several statements.
ReuseLineFlat == <<"layout", Blank, "direction", "=", "LR", Blank, "style", Blank, "s", Blank,
                   "icon", "=", "@", Blank, "component", Blank, "b", Blank, "{", Blank, "type",
                   Blank, "s", Blank, "}">>
ReuseLineContainer == <<"container", Blank, "a", Blank, "{", Blank, "label", Blank, Quote, "A",
                        Quote, Blank, "container", Blank, "b", Blank, "{", Blank, "}", Blank,
                        "component", Blank, "a", Blank, "{", Blank, "}", Blank, "x">>
ReuseLineRefs == <<"relation", Blank, "a", Blank, "-", ">", Blank, "b", Blank, "annotation",
                   Blank, "a", Blank, "{", Blank, "}">>

ReuseLines == {ReuseLineFlat, ReuseLineContainer, LineClose, ReuseLineRefs, LineUnknown}

ReuseTexts == UNION {[1..n -> ReuseLines] : n \in 1..MaxReuseLines}

\* Source lines of the texts about attributes and properties; each line is
\* one or more whole statements.
LineLayoutEmpty == <<"layout">>
LineLayoutWords == <<"layout", Blank, "direction", "=", "x", Blank, "ranksep", "=", "x">>
LineLayoutExtra == <<"layout", Blank, "nodesep", "=", "5", Blank, "color", "=", "x">>
LineLayoutOther == <<"layout", Blank, "foo", "=", "5">>
LineStyleAgain == <<"style", Blank, "s", Blank, "shape", "=", "x", Blank, "link", "=", "5">>
LineStyleOther == <<"style", Blank, "s", Blank, "foo", "=", "5">>
LineAnnotationLink == <<"annotation", Blank, "a", Blank, "{", Blank, "link", Blank, Quote, "u",
                        Quote, Blank, "x", Blank, "}">>
LineComponentOther == <<"component", Blank, "c", Blank, "{", Blank, "size", Blank, "5", Blank,
                        "type", Blank, "s", Blank, "kind", Blank, Quote, "k", Quote, Blank, "}">>
LineComponentKind == <<"component", Blank, "c", Blank, "{", Blank, "kind", Blank, "type", Blank,
                       "label", Blank, Quote, "L", Quote, Blank, "}">>
LineContainerWhole == <<"container", Blank, "a", Blank, "{", Blank, "label", Blank, Quote, "A",
                        Quote, Blank, "container", Blank, "b", Blank, "{", Blank, "component",
                        Blank, "a", Blank, "{", Blank, "}", Blank, "}", Blank, "x", Blank, "}">>

AttributeLines ==
    {LineLayoutEmpty, LineLayoutWords, LineLayoutExtra, LineLayoutOther, LineStyle,
     LineStyleAgain, LineStyleOther, LineAnnotation, LineAnnotationLink, LineComponentA,
     LineComponentOther, LineComponentKind, LineContainerWhole, LineRelation}

AttributeTexts == UNION {[1..n -> AttributeLines] : n \in 1..MaxAttributeLines}

\* Source lines of the texts about relations, blank lines and comments.
LineBlank == <<Blank, Blank>>
LineCommentRelation == <<"/", "/", "relation", Blank, "a", Blank, "-", ">", Blank, "b">>
LineRelationLabel == <<"relation", Blank, "a", Blank, "-", ">", Blank, "b", Blank, ":", Blank,
                       Quote, "x", Quote>>
LineRelationWord == <<"relation", Blank, "a", Blank, "-", ">", Blank, "b", Blank, ":", Blank, "x">>
LineRelationColon == <<"relation", Blank, "b", Blank, "-", ">", Blank, "a", Blank, ":">>
LineContainerRelation == <<"container", Blank, "c", Blank, "{", Blank, "label", Blank, Quote, "C",
                           Quote, Blank, "container", Blank, "d", Blank, "{", Blank, "}", Blank,
                           "component", Blank, "e", Blank, "{", Blank, "}", Blank, "relation",
                           Blank, "a", Blank, "-", ">", Blank, "b", Blank, "}">>

RelationLines ==
    {LineBlank, LineComment, LineCommentRelation, LineRelation, LineRelationLabel,
     LineRelationWord, LineRelationColon, LineContainerRelation, ReuseLineFlat, LineAnnotation}

RelationTexts == UNION {[1..n -> RelationLines] : n \in 1..MaxRelationLines}

\* The texts the page is given.
LineScene == <<"layout", Blank, "direction", "=", "LR", Blank,
               "style", Blank, "db", Blank, "icon", "=", "@", Blank,
               "component", Blank, "b", Blank, "{", Blank, "type", Blank, "db", Blank, "}", Blank,
               "container", Blank, "a", Blank, "{", Blank, "label", Blank, Quote, "Data", Quote,
               Blank, "container", Blank, "c", Blank, "{", Blank, "}", Blank,
               "component", Blank, "d", Blank, "{", Blank, "}", Blank, "x", Blank, "}", Blank,
               "relation", Blank, "b", Blank, "-", ">", Blank, "d", Blank,
               "annotation", Blank, "b", Blank, "{", Blank, "link", Blank, Quote, "u", Quote,
               Blank, "}">>

SceneTexts == {<<LineScene>>, <<LineUnknown>>}

AppTexts == {<<LineScene>>, <<ReuseLineFlat>>, <<ReuseLineContainer, LineClose>>,
             <<LineUnknown>>, <<ReuseLineRefs>>}

\* ------------------------------------------------------------- behaviour
Init ==
    /\ text = <<>>
    /\ tokens = Constructed.tokens
    /\ position = Constructed.position
    /\ currentToken = Constructed.currentToken
    /\ diagram = Constructed.diagram
    /\ stack = Constructed.stack
    /\ nextRef = Constructed.nextRef
    /\ pc = Constructed.pc
    /\ error = Constructed.error
    /\ result = Constructed.result
    /\ decls = Constructed.decls
    /\ consumedAs = Constructed.consumedAs
    /\ validation = NotValidated
    /\ calls = 0
    /\ previous = "none"
    /\ app = NewApp
    /\ renderer = NewRenderer
    /\ localStorage = NoItem
    /\ history = NoHistory

\* parse(input) is called on the new parser.
Parse ==
    /\ pc = "idle"
    /\ \E input \in Texts :
        /\ text' = input
        /\ Set(parseBegin(Cur, input))
    /\ validation' = NotValidated
    /\ calls' = calls + 1
    /\ previous' = "none"
    /\ UNCHANGED uiVars

\* parse(input) is called on the new parser, to be followed to its end.
ParseToEnd ==
    /\ pc = "idle"
    /\ \E input \in TerminationTexts :
        /\ text' = input
        /\ Set(parseBegin(Cur, input))
    /\ validation' = NotValidated
    /\ calls' = calls + 1
    /\ previous' = "none"
    /\ UNCHANGED uiVars

\* parse(input) is called on the new parser with a text of whole statements.
ParseAttributes ==
    /\ pc = "idle"
    /\ \E input \in AttributeTexts :
        /\ text' = input
        /\ Set(parseBegin(Cur, input))
    /\ validation' = NotValidated
    /\ calls' = calls + 1
    /\ previous' = "none"
    /\ UNCHANGED uiVars

\* parse(input) is called on the new parser with a text of relations, blank
\* lines and comments among other statements.
ParseRelations ==
    /\ pc = "idle"
    /\ \E input \in RelationTexts :
        /\ text' = input
        /\ Set(parseBegin(Cur, input))
    /\ validation' = NotValidated
    /\ calls' = calls + 1
    /\ previous' = "none"
    /\ UNCHANGED uiVars

\* parse(input) is called on a parser, new or used before, that is not
\* inside a call (the calls of one parser do not overlap).
ParseAgain ==
    /\ pc \in {"idle", "returned", "raised"}
    /\ calls < MaxCalls
    /\ \E input \in ReuseTexts :
        /\ text' = input
        /\ Set(parseBegin(Cur, input))
    /\ validation' = NotValidated
    /\ calls' = calls + 1
    /\ previous' = IF pc = "idle" THEN "none" ELSE pc
    /\ UNCHANGED uiVars

Running(d) == Dispatch(Cur) = d /\ UNCHANGED <<text, validation, calls, previous, uiVars>>

ParseReturn == Running("return") /\ Set(parseReturn(Cur))
ParseLayout == Running("layout") /\ Set(parseLayout(Cur))
ParseStyle == Running("style") /\ Set(parseStyle(Cur))
ParseComponent == Running("component") /\ Set(parseComponent(Cur, NullRef))
ParseContainer == Running("container") /\ Set(parseContainerOpen(Cur, NullRef))
ParseRelation == Running("relation") /\ Set(parseRelation(Cur))
ParseAnnotation == Running("annotation") /\ Set(parseAnnotation(Cur))
UnexpectedToken == Running("unexpected") /\ Set(unexpectedToken(Cur))
ContainerProperty == Running("property") /\ Set(containerProperty(Cur))
NestedComponent == Running("nestedComponent") /\ Set(parseComponent(Cur, Top(Cur).containerId))
NestedContainer == Running("nestedContainer") /\ Set(parseContainerOpen(Cur, Top(Cur).containerId))
ContainerSkip == Running("skip") /\ Set(containerSkip(Cur))
ContainerClose == Running("close") /\ Set(parseContainerClose(Cur))

\* validate(diagram) is called on the diagram parse returned.
Validate ==
    /\ pc = "returned"
    /\ validation = NotValidated
    /\ validation' = validate(result)
    /\ UNCHANGED <<text, tokens, position, currentToken, diagram, stack, nextRef, pc,
                   error, result, decls, consumedAs, calls, previous, uiVars>>

Next ==
    \/ Parse
    \/ ParseReturn
    \/ ParseLayout
    \/ ParseStyle
    \/ ParseComponent
    \/ ParseContainer
    \/ ParseRelation
    \/ ParseAnnotation
    \/ UnexpectedToken
    \/ ContainerProperty
    \/ NestedComponent
    \/ NestedContainer
    \/ ContainerSkip
    \/ ContainerClose
    \/ Validate

\* A new parser parses one text; the diagram it returns is validated.
Spec == Init /\ [][Next]_vars

\* One iteration of the statement loop of parse or of the body loop of the
\* innermost running parseContainer, or the return of parse.
ParserStep ==
    \/ ParseReturn
    \/ ParseLayout
    \/ ParseStyle
    \/ ParseComponent
    \/ ParseContainer
    \/ ParseRelation
    \/ ParseAnnotation
    \/ UnexpectedToken
    \/ ContainerProperty
    \/ NestedComponent
    \/ NestedContainer
    \/ ContainerSkip
    \/ ContainerClose

NextToEnd ==
    \/ ParseToEnd
    \/ ParserStep
    \/ Validate

\* parse is synchronous code: a call that has started keeps running its
\* loops until it returns or throws, nothing else runs in between.
TerminationSpec == Init /\ [][NextToEnd]_vars /\ WF_vars(ParserStep)

NextReuse ==
    \/ ParseAgain
    \/ ParseReturn
    \/ ParseLayout
    \/ ParseStyle
    \/ ParseComponent
    \/ ParseContainer
    \/ ParseRelation
    \/ ParseAnnotation
    \/ UnexpectedToken
    \/ ContainerProperty
    \/ NestedComponent
    \/ NestedContainer
    \/ ContainerSkip
    \/ ContainerClose
    \/ Validate

\* One parser parses one text after the other.
ReuseSpec == Init /\ [][NextReuse]_vars

NextAttributes ==
    \/ ParseAttributes
    \/ ParseReturn
    \/ ParseLayout
    \/ ParseStyle
    \/ ParseComponent
    \/ ParseContainer
    \/ ParseRelation
    \/ ParseAnnotation
    \/ UnexpectedToken
    \/ ContainerProperty
    \/ NestedComponent
    \/ NestedContainer
    \/ ContainerSkip
    \/ ContainerClose
    \/ Validate

\* A new parser parses one text made of whole statements.
AttributeSpec == Init /\ [][NextAttributes]_vars

NextRelations ==
    \/ ParseRelations
    \/ ParseReturn
    \/ ParseLayout
    \/ ParseStyle
    \/ ParseComponent
    \/ ParseContainer
    \/ ParseRelation
    \/ ParseAnnotation
    \/ UnexpectedToken
    \/ ContainerProperty
    \/ NestedComponent
    \/ NestedContainer
    \/ ContainerSkip
    \/ ContainerClose
    \/ Validate

\* A new parser parses one text of relations, blank lines and comments.
RelationSpec == Init /\ [][NextRelations]_vars

\* ------------------------------------------------------ the page's events
\* What a raycast can return: up to MaxHits distinct objects of the scene,
\* nearest first.
Intersections(r) ==
    LET objects == r.scene \cup {OtherObject}
    IN UNION {{hits \in [1..n -> objects] : \A i, j \in 1..n : i # j => hits[i] # hits[j]} :
              n \in 0..MaxHits}

\* What the geometry can decide in handleDrag for the object dragged.
DragOutcomes(r) ==
    {NoDrag}
    \cup {[hitsPlane |-> TRUE, wouldExitContainer |-> exits, newContainer |-> NullRef] :
          exits \in BOOLEAN}
    \cup {[hitsPlane |-> TRUE, wouldExitContainer |-> FALSE, newContainer |-> c] :
          c \in {id \in DOMAIN r.meshes : r.meshes[id].type = "container"}}

\* The part of a mousemove event its handler looks at.
Moves(r) ==
    IF r.isPanning THEN {[intersects |-> <<>>, drag |-> NoDrag]}
    ELSE IF r.isDragging /\ r.draggedObject # NoObject
    THEN {[intersects |-> <<>>, drag |-> drag] : drag \in DragOutcomes(r)}
    ELSE {[intersects |-> intersects, drag |-> NoDrag] : intersects \in Intersections(r)}

Event(name) == [history EXCEPT !.lastEvent = name, !.ended = "none", !.opened = NoLink]

\* handleParse is called (parse button, Ctrl+Enter, file or sample loaded,
\* start of the page) with the text of inputs in the editor, while no
\* other code runs: it runs up to its call of parse.
HandleParseOf(inputs, maxCalls) ==
    /\ app.phase = "ready"
    /\ calls < maxCalls
    /\ \E input \in inputs :
        /\ text' = input
        /\ Set(parseBegin(Cur, input))
    /\ validation' = NotValidated
    /\ calls' = calls + 1
    /\ previous' = IF pc = "idle" THEN "none" ELSE pc
    /\ app' = handleParseBegin(app)
    /\ history' = Event("parse")
    /\ UNCHANGED <<renderer, localStorage>>

HandleParse == HandleParseOf(AppTexts, MaxAppCalls)

HandleParseScene == HandleParseOf(SceneTexts, MaxSceneCalls)

\* handleParse is called with an editor that holds blanks only.
HandleParseEmpty ==
    /\ app.phase = "ready"
    /\ app' = handleParseEmpty(app)
    /\ history' = Event("parse")
    /\ UNCHANGED <<parserVars, renderer, localStorage>>

\* parse has thrown, or validate has run: handleParse goes on to its await
\* or to its catch.
HandleParseEnd ==
    /\ app.phase = "try"
    /\ pc = "raised" \/ (pc = "returned" /\ validation # NotValidated)
    /\ app' = handleParseEnd(app, Cur, validation, text, calls)
    /\ history' = [history EXCEPT !.failed = IF Passed(Cur, validation) THEN @ ELSE @ \cup {calls}]
    /\ UNCHANGED <<parserVars, renderer, localStorage>>

\* The oldest timer of renderDiagram fires: render runs, the promise
\* resolves, handleParse resumes with saveDiagram and finally.
RenderTimer ==
    /\ app.phase = "ready"
    /\ app.timers # <<>>
    /\ renderer' = render(renderer, Head(app.timers).diagram)
    /\ \E stores \in BOOLEAN :
        /\ localStorage' = saveDiagram(localStorage, Head(app.timers).dslContent, stores)
        /\ history' = [Event("render") EXCEPT
                          !.rendered = Head(app.timers).call,
                          !.saved = IF stores THEN Head(app.timers).call ELSE @]
    /\ app' = handleParseResume(app)
    /\ UNCHANGED parserVars

\* The timer of showError fires: hideError.
HideError ==
    /\ app.phase = "ready"
    /\ app.shown # NoMessage
    /\ app' = [app EXCEPT !.shown = NoMessage]
    /\ history' = Event("timer")
    /\ UNCHANGED <<parserVars, renderer, localStorage>>

\* handleKeyDown with the Escape key.
EscapeKey ==
    /\ app.phase = "ready"
    /\ renderer' = [renderer EXCEPT !.selectedObject = NoObject]
    /\ history' = Event("key")
    /\ UNCHANGED <<parserVars, app, localStorage>>

\* A mousedown event on the canvas.
MouseDown ==
    /\ app.phase = "ready"
    /\ \E button \in {0, 2}, intersects \in Intersections(renderer) :
        renderer' = onMouseDown(renderer, button, intersects)
    /\ history' = Event("mousedown")
    /\ UNCHANGED <<parserVars, app, localStorage>>

\* A mousemove event on the canvas.  The diagram the renderer changes is
\* the object app.currentDiagram refers to when both come from one call.
MouseMove ==
    /\ app.phase = "ready"
    /\ \E move \in Moves(renderer) :
        renderer' = onMouseMove(renderer, move.intersects, move.drag)
    /\ app' = IF app.stored = history.rendered
              THEN [app EXCEPT !.currentDiagram = renderer'.currentDiagram]
              ELSE app
    /\ history' = Event("mousemove")
    /\ UNCHANGED <<parserVars, localStorage>>

\* A mouseup event on the canvas.
MouseUp ==
    /\ app.phase = "ready"
    /\ renderer' = onMouseUp(renderer)
    /\ history' = [Event("mouseup") EXCEPT
                      !.ended = IF renderer.isDragging THEN "drag"
                                ELSE IF renderer.isPanning THEN "pan" ELSE "none"]
    /\ UNCHANGED <<parserVars, app, localStorage>>

\* A click event on the canvas.
Click ==
    /\ app.phase = "ready"
    /\ \E intersects \in Intersections(renderer) :
        /\ renderer' = onClick(renderer, intersects)
        /\ history' = [Event("click") EXCEPT
                          !.ended = IF history.lastEvent = "mouseup" THEN history.ended
                                    ELSE "none",
                          !.opened = OpenedBy(renderer, intersects)]
    /\ UNCHANGED <<parserVars, app, localStorage>>

NextApp ==
    \/ HandleParse
    \/ HandleParseEmpty
    \/ ParserStep
    \/ Validate
    \/ HandleParseEnd
    \/ RenderTimer
    \/ HideError

\* The page: texts are parsed, validated, rendered and saved.
AppSpec == Init /\ [][NextApp]_vars

NextMouse ==
    \/ HandleParseScene
    \/ ParserStep
    \/ Validate
    \/ HandleParseEnd
    \/ RenderTimer
    \/ HideError
    \/ EscapeKey
    \/ MouseDown
    \/ MouseMove
    \/ MouseUp
    \/ Click

\* The page with the mouse over the canvas.
MouseSpec == Init /\ [][NextMouse]_vars

\* ================================================================ claims
Finished == pc \in {"returned", "raised"}

\* The id names a component or a container declared in the source.
Declared(d, id) == Has(d.components, id) \/ Has(d.containers, id)

HasType(component) ==
    Has(component.properties, "type") /\ component.properties.at["type"] # ""

\* C1: when validate returns without raising, every relation endpoint and
\* every annotation target is the id of a declared component or container,
\* and every component type is the name of a declared style.
C1_ValidatedReferencesResolve ==
    validation.status = "valid" =>
        /\ \A i \in 1..Len(result.relations) :
              /\ Declared(result, result.relations[i].from)
              /\ Declared(result, result.relations[i].to)
        /\ \A t \in DOMAIN result.annotations.at : Declared(result, t)
        /\ \A c \in DOMAIN result.components.at :
              Has(result.components.at[c].properties, "type")
                 => Has(result.styles, result.components.at[c].properties.at["type"])

\* The number of dangling references of a diagram: undeclared relation
\* sources and targets, undeclared annotation targets, component types that
\* name no declared style.
DanglingReferences(d) ==
    Cardinality({i \in 1..Len(d.relations) : ~Declared(d, d.relations[i].from)})
    + Cardinality({i \in 1..Len(d.relations) : ~Declared(d, d.relations[i].to)})
    + Cardinality({t \in DOMAIN d.annotations.at : ~Declared(d, t)})
    + Cardinality({c \in DOMAIN d.components.at :
                      /\ HasType(d.components.at[c])
                      /\ ~Has(d.styles, d.components.at[c].properties.at["type"])})

\* C2: validate reports every dangling reference: a diagram with N of them
\* makes validate raise one error that lists exactly N messages (and a
\* diagram with none validates).
C2_ValidationTotality ==
    validation.status # "none" =>
        IF DanglingReferences(result) = 0
        THEN validation.status = "valid"
        ELSE /\ validation.status = "raised"
             /\ Len(validation.errors) = DanglingReferences(result)

\* Lines that hold one well-formed relation or annotation statement.
ReferenceLines == {LineRelation, LineRelationProto, LineAnnotation}

RECURSIVE RelationsOf(_)
\* The relation statements written in a text of reference lines.
RelationsOf(lines) ==
    IF lines = <<>> THEN <<>>
    ELSE (IF Head(lines) = LineRelation
          THEN <<[from |-> "a", to |-> "b", label |-> ""]>>
          ELSE IF Head(lines) = LineRelationProto
          THEN <<[from |-> "toString", to |-> "b", label |-> "x"]>>
          ELSE <<>>)
         \o RelationsOf(Tail(lines))

OnlyReferences == \A i \in 1..Len(text) : text[i] \in ReferenceLines

\* C3: a text made of relation and annotation statements whose ids are
\* declared nowhere parses successfully, with every relation and annotation
\* in the diagram; validate then raises, and for `relation a -> b` alone it
\* lists exactly the two messages source not found, target not found.
C3_DanglingReferencesParse ==
    (Finished /\ OnlyReferences) =>
        /\ pc = "returned"
        /\ result.relations = RelationsOf(text)
        /\ Has(result.annotations, "a") <=> (\E i \in 1..Len(text) : text[i] = LineAnnotation)
        /\ validation.status # "none" => validation.status = "raised"
        /\ (validation.status # "none" /\ text = <<LineRelation>>) =>
              validation.errors = <<"Relation source 'a' not found",
                                    "Relation target 'b' not found">>

C3_Witness ==
    /\ text = <<LineRelation>>
    /\ pc = "returned"
    /\ Len(result.relations) = 1
    /\ validation.status = "raised"

\* The declarations written directly inside the block of the container
\* object r, in source order.
ChildDecls(r) == SelectSeq(decls, LAMBDA d : d.encl = r)

Ids(ds) == [i \in 1..Len(ds) |-> ds[i].id]

\* The parent field of the entry the diagram holds for a declaration.
ParentField(d, child) ==
    IF child.kind = "component" THEN d.components.at[child.id].parent
    ELSE d.containers.at[child.id].parent

NestingIntegrity ==
    \A i \in 1..Len(decls) :
        decls[i].kind = "container" =>
            LET C == decls[i]
                children == ChildDecls(C.ref)
            IN /\ result.containers.at[C.id].children = Ids(children)
               /\ \A j \in 1..Len(children) : ParentField(result, children[j]) = C.id

\* C4 as stated: after a successful parse every container's children list is
\* the ordered list of the ids declared directly in its block, and each of
\* those children has the container's id as parent.
C4_NestingIntegrityAlways == pc = "returned" => NestingIntegrity

RECURSIVE Up(_, _, _)
\* The ids met by following parent fields upward from id.
Up(d, id, seen) ==
    IF id = NullRef \/ id \in seen THEN seen
    ELSE IF ~Has(d.containers, id) THEN seen \cup {id}
    ELSE Up(d, d.containers.at[id].parent, seen \cup {id})

Ancestors(d, c) == Up(d, d.components.at[c].parent, {})

\* C5 as stated: following parent ids upward from a component never reaches
\* the component's own id.
C5_NoComponentReachesOwnId ==
    pc = "returned" =>
        \A c \in DOMAIN result.components.at : c \notin Ancestors(result, c)

\* C5, amended: following parent ids upward from a component whose id is not
\* also the id of a container reaches container ids only, never its own id.
C5_NoComponentIsOwnAncestor ==
    pc = "returned" =>
        \A c \in DOMAIN result.components.at :
            ~Has(result.containers, c) =>
                /\ c \notin Ancestors(result, c)
                /\ Ancestors(result, c) \subseteq DOMAIN result.containers.at

C5_Witness ==
    /\ pc = "returned"
    /\ \E c \in DOMAIN result.components.at :
          /\ ~Has(result.containers, c)
          /\ Ancestors(result, c) # {}

\* What a parse call hands to its caller.
Outcome(m) == [pc |-> m.pc, result |-> m.result, error |-> m.error]

\* C6: whatever calls were made on the parser before, a parse call ends as
\* the same call on a new parser does: same diagram returned, or same error.
C6_OutcomeDependsOnTextOnly ==
    Finished => Outcome(Cur) = Outcome(parse(Constructed, text))

C6_Witness ==
    /\ calls >= 2
    /\ previous = "raised"
    /\ pc = "returned"
    /\ Len(result.containers.keys) > 0

TokenTypes == {"KEYWORD", "PROPERTY", "LBRACE", "RBRACE", "COLON", "ARROW", "EQUALS",
               "COLOR", "STRING", "NUMBER", "IDENTIFIER", "UNKNOWN"}

\* The tokens of source line l, lexed on its own.
LineTokens(l) == tokenize(<<text[l]>>)

\* tok is a token written on the source line it is stamped with.
OnSourceLine(tok) ==
    /\ tok.line \in 1..Len(text)
    /\ \E k \in 1..Len(LineTokens(tok.line)) :
          /\ LineTokens(tok.line)[k].type = tok.type
          /\ LineTokens(tok.line)[k].value = tok.value
          /\ LineTokens(tok.line)[k].column = tok.column

\* The error message names tok as the token that did not fit.
ErrorNames(tok) ==
    \/ error.message = "Unexpected token: " \o tok.value
    \/ \E T \in TokenTypes :
          error.message = "Expected " \o T \o ", got " \o tok.type
                          \o " (value: '" \o tok.value \o "')"

\* The error message says the input ended.
ErrorAtEnd ==
    \/ error.site = "TypeError"
    \/ \E T \in TokenTypes : error.message = "Expected " \o T \o ", got EOF (value: '')"

\* C7: an error raised by parse carries the 1-based source line (blank and
\* comment lines counted) of the token at which the mismatch was detected,
\* or EOF when the input ended while a token was expected.
C7_ErrorLine ==
    pc = "raised" =>
        IF position < Len(tokens)
        THEN /\ error.at = "line"
             /\ error.line = tokens[position + 1].line
             /\ OnSourceLine(tokens[position + 1])
             /\ ErrorNames(tokens[position + 1])
        ELSE /\ error.at = "EOF"
             /\ ErrorAtEnd

C7_Witness ==
    /\ pc = "raised"
    /\ text[1] = LineComment
    /\ error.at = "line"
    /\ error.line = 3

\* C8: parse halts at the first error: the cursor stays on the token that
\* did not fit, nothing runs afterwards, and no diagram is returned.
C8_HaltsAtFirstError ==
    /\ [](error # NoError =>
             /\ pc = "raised"
             /\ result = NoDiagram
             /\ Len(consumedAs) = position
             /\ Dispatch(Cur) = "none"
             /\ position < Len(tokens) => ErrorNames(tokens[position + 1]))
    /\ [][pc = "raised" =>
             /\ pc' = "raised"
             /\ UNCHANGED <<position, currentToken, diagram, result, error>>]_vars

C8_Witness ==
    /\ pc = "raised"
    /\ diagram # NewDiagram
    /\ position + 1 < Len(tokens)

\* C9: at top level a token whose value is none of the six keywords makes
\* parse raise an error that carries that token's line.
C9_TopLevelNonKeywordRaises ==
    [][(/\ pc = "parsing"
        /\ stack = <<>>
        /\ currentToken # Null
        /\ currentToken.value \notin keywords)
       => /\ pc' = "raised"
          /\ error'.at = "line"
          /\ error'.line = currentToken.line
          /\ position' = position]_vars

C9_Witness ==
    /\ pc = "raised"
    /\ error.site = "parseStatement"
    /\ position > 0

\* C10 as stated: a text whose token stream holds an UNKNOWN token is
\* rejected by parse.
C10_UnknownTokenRejected ==
    (Finished /\ \E i \in 1..Len(tokens) : tokens[i].type = "UNKNOWN") => pc = "raised"

\* C10, amended: every text lexes to tokens of the twelve kinds, and parse
\* returns only if each UNKNOWN token stood where any token is taken (an
\* attribute or property value, a relation label, a token skipped in a
\* block): an UNKNOWN token anywhere else makes parse raise.
C10_UnknownTokenRejectedWhereTyped ==
    /\ Finished =>
          /\ tokens = tokenize(text)
          /\ \A i \in 1..Len(tokens) : tokens[i].type \in TokenTypes
    /\ pc = "returned" =>
          \A i \in 1..Len(tokens) :
              tokens[i].type = "UNKNOWN" => consumedAs[i] = NoType

C10_Witness ==
    /\ pc = "returned"
    /\ \E i \in 1..Len(tokens) : tokens[i].type = "UNKNOWN"

\* parse on a new parser whose tokenizer has produced toks.
ParseTokens(toks) ==
    Run([parseBegin(Constructed, <<>>) EXCEPT
            !.tokens = toks,
            !.currentToken = IF toks = <<>> THEN Null ELSE toks[1]])

RECURSIVE StartsFrom(_)
\* The token indices at which the statement loop of parse takes up a
\* statement, from the point m of a call to its end.
StartsFrom(m) ==
    IF m.pc # "parsing" THEN <<>>
    ELSE (IF m.stack = <<>> /\ m.currentToken # Null THEN <<m.position + 1>> ELSE <<>>)
         \o StartsFrom(Step(m))

StatementStarts == StartsFrom(parseBegin(Constructed, text))

\* The tokens of the k-th top-level statement of the text.
Statement(k) ==
    SubSeq(tokens, StatementStarts[k],
           IF k < Len(StatementStarts) THEN StatementStarts[k + 1] - 1 ELSE Len(tokens))

StatementIs(k, keyword) == Statement(k)[1].value = keyword

\* C11: a source with no layout statement, or whose layout statements have
\* no attributes, parses to the layout {direction: TB, ranksep: 50,
\* nodesep: 30}.
C11_DefaultLayout ==
    (/\ pc = "returned"
     /\ \A k \in 1..Len(StatementStarts) : StatementIs(k, "layout") => Len(Statement(k)) = 1)
    => result.layout = [direction |-> "TB", ranksep |-> Num(50), nodesep |-> Num(30)]

C11_Witness ==
    /\ pc = "returned"
    /\ Len(StatementStarts) >= 2
    /\ \E k \in 1..Len(StatementStarts) : StatementIs(k, "layout")
    /\ \A k \in 1..Len(StatementStarts) : StatementIs(k, "layout") => Len(Statement(k)) = 1

\* The top-level statements that begin with keyword and name n.
Declaring(keyword, n) ==
    {k \in 1..Len(StatementStarts) :
        StatementIs(k, keyword) /\ Len(Statement(k)) >= 2 /\ Statement(k)[2].value = n}

\* The last of them.
LastDeclaring(keyword, n) ==
    CHOOSE k \in Declaring(keyword, n) : \A j \in Declaring(keyword, n) : j <= k

\* C12: a style name (an annotation target) declared again raises no error,
\* and its map entry is the record the last declaration builds on its own;
\* a target has one annotation.
C12_LastWins ==
    /\ pc = "returned" =>
          /\ \A n \in DOMAIN result.styles.at :
                /\ Declaring("style", n) # {}
                /\ result.styles.at[n] =
                      ParseTokens(Statement(LastDeclaring("style", n))).result.styles.at[n]
          /\ \A n \in DOMAIN result.annotations.at :
                /\ Declaring("annotation", n) # {}
                /\ result.annotations.at[n] =
                      ParseTokens(Statement(LastDeclaring("annotation", n))).result.annotations.at[n]
          /\ \A i, j \in 1..Len(result.annotations.keys) :
                result.annotations.keys[i] = result.annotations.keys[j] => i = j
    /\ (pc = "raised" /\ StatementStarts # <<>>) =>
          ParseTokens(Statement(Len(StatementStarts))).pc = "raised"

\* An earlier declaration of the name built another record than the one stored.
Redeclared(keyword, n, stored) ==
    \E k \in Declaring(keyword, n) :
        LET alone == ParseTokens(Statement(k)).result
        IN (IF keyword = "style" THEN alone.styles.at[n] ELSE alone.annotations.at[n]) # stored

C12_Witness ==
    /\ pc = "returned"
    /\ \E n \in DOMAIN result.styles.at : Redeclared("style", n, result.styles.at[n])

\* C13: a component declared without a label property has its id as label.
C13_LabelDefaultsToId ==
    pc = "returned" =>
        \A c \in DOMAIN result.components.at :
            ~Has(result.components.at[c].properties, "label") =>
                componentLabel(result.components.at[c]) = result.components.at[c].id

Directions == {"LR", "RL", "TB", "BT"}

\* A value of JS type number, NaN included.
IsNumber(v) == v = NaN \/ "num" \in DOMAIN v

\* C14: in a returned diagram layout.direction is one of LR, RL, TB, BT and
\* layout.ranksep and layout.nodesep are numbers.
C14_LayoutTypes ==
    pc = "returned" =>
        /\ result.layout.direction \in Directions
        /\ IsNumber(result.layout.ranksep)
        /\ IsNumber(result.layout.nodesep)

\* C15: a container is in diagram.containers from the moment its body is
\* entered and no key is ever removed, so the parent of a nested component
\* or container is always found: 'Parent container ... not found' is never
\* raised.
C15_ParentAlwaysRegistered ==
    /\ [](pc = "parsing" =>
             \A i \in 1..Len(stack) : Has(diagram.containers, stack[i].containerId))
    /\ [](error # NoError => error.site # "parent")
    /\ [][pc = "parsing" =>
             DOMAIN diagram.containers.at \subseteq DOMAIN diagram'.containers.at]_vars

C15_Witness ==
    /\ pc = "parsing"
    /\ Len(stack) = 1
    /\ Len(diagram.containers.at[stack[1].containerId].children) = 2

\* Piece i of the line is the name of a name=value pair.
PairAt(line, i) ==
    /\ 1 < i
    /\ i + 2 <= Len(line)
    /\ line[i - 1] = Blank
    /\ IsWord(line[i])
    /\ line[i + 1] = "="
    /\ MatchEnd(line, i + 2) # 0

\* The value of the pair, as the tokenizer hands it on.
PairValue(line, i) == Str(StripQuotes(SubSeq(line, i + 2, MatchEnd(line, i + 2))))

\* The line without the pair at i and the blank before it.
WithoutPair(line, i) ==
    SubSeq(line, 1, i - 2) \o SubSeq(line, MatchEnd(line, i + 2) + 1, Len(line))

\* C16: a pair of a layout statement whose name is not direction, ranksep
\* or nodesep does not make parse raise, and the diagram is the one parsed
\* from the text without that pair.
C16_UnknownLayoutAttributeIgnored ==
    Finished =>
        \A l \in 1..Len(text) : \A i \in 1..Len(text[l]) :
            (/\ text[l][1] = "layout"
             /\ PairAt(text[l], i)
             /\ text[l][i] \notin {"direction", "ranksep", "nodesep"})
            => LET without == parse(Constructed, [text EXCEPT ![l] = WithoutPair(text[l], i)])
               IN /\ pc = without.pc
                  /\ pc = "returned" => result.layout = without.result.layout

\* The tokens that give ranksep (nodesep) a value in a top-level layout
\* statement.
LayoutAssignments(name) ==
    {j \in 1..(Len(tokens) - 2) :
        /\ tokens[j].value = name
        /\ tokens[j + 1].type = "EQUALS"
        /\ \E k \in 1..Len(StatementStarts) :
              /\ StatementIs(k, "layout")
              /\ StatementStarts[k] < j
              /\ j + 2 < StatementStarts[k] + Len(Statement(k))}

\* The last value given to the field is not a number.
LastIsNonNumeric(name) ==
    /\ LayoutAssignments(name) # {}
    /\ LET j == CHOOSE a \in LayoutAssignments(name) : \A b \in LayoutAssignments(name) : b <= a
       IN tokens[j + 2].type \in {"IDENTIFIER", "STRING"}

\* C17: a layout statement giving ranksep or nodesep a value that is not a
\* number parses, and the field keeps its default (50, 30).
C17_NonNumericKeepsDefault ==
    /\ pc = "returned" /\ LastIsNonNumeric("ranksep") => result.layout.ranksep = Num(50)
    /\ pc = "returned" /\ LastIsNonNumeric("nodesep") => result.layout.nodesep = Num(30)

\* The pieces of a style line that are names of pairs not given again later
\* in the line.
StylePairs(line) ==
    {i \in 1..Len(line) :
        /\ PairAt(line, i)
        /\ \A j \in (i + 1)..Len(line) : PairAt(line, j) => line[j] # line[i]}

\* C18: each name=value pair of a style statement is stored in the style
\* record under its name, whatever the name. When the lines before a style
\* line parse, the text up to and with that line parses too and the style
\* holds every pair of the line.
C18_StyleStoresEveryPair ==
    Finished =>
        \A l \in 1..Len(text) :
            (/\ text[l][1] = "style"
             /\ parse(Constructed, SubSeq(text, 1, l - 1)).pc = "returned")
            => LET upTo == parse(Constructed, SubSeq(text, 1, l))
                   name == text[l][3]
               IN /\ upTo.pc = "returned"
                  /\ Has(upTo.result.styles, name)
                  /\ \A i \in StylePairs(text[l]) :
                        /\ Has(upTo.result.styles.at[name], text[l][i])
                        /\ upTo.result.styles.at[name].at[text[l][i]] = PairValue(text[l], i)

\* Token kinds a property value is written with: a bare word (which may
\* spell one of the property words), a string, a number, a colour.
ValueTypes == {"IDENTIFIER", "PROPERTY", "STRING", "NUMBER", "COLOR"}

\* The number of `name value` lines in the block of a component statement.
BlockLines(st) == (Len(st) - 4) \div 2

\* The tokens st are a component statement whose block is made of
\* `name value` lines, the names property words or other identifiers.
ComponentOfLines(st) ==
    /\ Len(st) >= 4
    /\ (Len(st) - 4) % 2 = 0
    /\ st[1].value = "component"
    /\ st[2].type = "IDENTIFIER"
    /\ st[3].type = "LBRACE"
    /\ st[Len(st)].type = "RBRACE"
    /\ \A p \in 1..BlockLines(st) :
          /\ st[2 + 2 * p].type \in {"PROPERTY", "IDENTIFIER"}
          /\ st[3 + 2 * p].type \in ValueTypes

\* Line p of the block has a name that is no property word.
UnknownLine(st, p) == st[2 + 2 * p].type = "IDENTIFIER"

\* The statement without the lines in ps.
WithoutLines(st, ps) ==
    SelectSeq([j \in 1..Len(st) |-> [tok |-> st[j], j |-> j]],
              LAMBDA e : \A p \in ps : e.j \notin {2 + 2 * p, 3 + 2 * p})

Toks(es) == [j \in 1..Len(es) |-> es[j].tok]

\* C19: unknown property lines of a component block are skipped: the
\* statement parses, and the component has the properties of the same
\* block without those lines.
C19_UnknownComponentLinesSkipped ==
    Finished =>
        \A k \in 1..Len(StatementStarts) :
            ComponentOfLines(Statement(k)) =>
                LET st == Statement(k)
                    id == st[2].value
                    whole == ParseTokens(st)
                    unknown == {p \in 1..BlockLines(st) : UnknownLine(st, p)}
                IN /\ whole.pc = "returned"
                   /\ \A ps \in SUBSET unknown :
                         LET less == ParseTokens(Toks(WithoutLines(st, ps)))
                         IN /\ less.pc = "returned"
                            /\ less.result.components.at[id].properties
                                  = whole.result.components.at[id].properties
                   /\ (/\ pc = "returned"
                       /\ \A i, j \in 1..Len(decls) :
                             (/\ decls[i].kind = "component" /\ decls[i].id = id
                              /\ decls[j].kind = "component" /\ decls[j].id = id) => i = j)
                         => result.components.at[id].properties
                               = whole.result.components.at[id].properties

RECURSIVE RunUntil(_, _)
\* The call m run until pos tokens are consumed, or to its end.
RunUntil(m, pos) ==
    IF m.pc # "parsing" \/ m.position >= pos THEN m ELSE RunUntil(Step(m), pos)

\* Lines that are one whole relation, annotation, style or layout statement.
FlatStatementLines ==
    {LineLayout, LineStyle, LineRelation, LineRelationProto, LineAnnotation}

\* Line l is taken up by the loop of a container block: the call reaches
\* its first token while a parseContainer invocation is between two items
\* of its body.
InContainerBlock(l) ==
    LET first == CHOOSE j \in 1..Len(tokens) :
                    tokens[j].line = l /\ \A i \in 1..(j - 1) : tokens[i].line < l
        m == RunUntil(parseBegin(Constructed, text), first - 1)
    IN /\ m.pc = "parsing"
       /\ m.position = first - 1
       /\ m.stack # <<>>

\* The text without line l.
WithoutLine(l) == SubSeq(text, 1, l - 1) \o SubSeq(text, l + 1, Len(text))

\* C20: a relation, annotation, style or layout statement inside a
\* container block makes no difference: parse ends as it does on the text
\* without the statement, with the same diagram.
C20_StatementsInContainerTolerated ==
    Finished =>
        \A l \in 1..Len(text) :
            (text[l] \in FlatStatementLines /\ InContainerBlock(l)) =>
                LET without == parse(Constructed, WithoutLine(l))
                IN /\ pc = without.pc
                   /\ pc = "returned" => result = without.result

\* ------------------------------------------------------------------- C21
\* The token that parseRelation consumed as COLON at position j, if any.
LabelColons == {j \in 1..Len(consumedAs) : consumedAs[j] = "COLON"}

\* C21: a relation's label is optional and, when a ':' follows the target
\* id, the next token must be a quoted string: whenever parse returns a
\* diagram, every ':' taken by a relation statement is followed by a STRING
\* token (a token of another kind, or no token, makes parse raise).
C21_RelationLabelIsQuoted ==
    pc = "returned" =>
        \A j \in LabelColons : j < Len(tokens) /\ tokens[j + 1].type = "STRING"

\* ------------------------------------------------------------------- C22
\* The relation written by a top-level relation statement, given its
\* tokens: its endpoints and, after a ':', its label.
RelationOf(st) ==
    [from |-> st[2].value, to |-> st[4].value,
     label |-> IF Len(st) >= 6 /\ st[5].type = "COLON" THEN st[6].value ELSE ""]

\* The relations of the top-level relation statements, in source order.
RelationStatements ==
    LET starts == StatementStarts
        st(k) == SubSeq(tokens, starts[k],
                        IF k < Len(starts) THEN starts[k + 1] - 1 ELSE Len(tokens))
        from[k \in 1..(Len(starts) + 1)] ==
            IF k > Len(starts) THEN <<>>
            ELSE (IF tokens[starts[k]].value = "relation" THEN <<RelationOf(st(k))>> ELSE <<>>)
                 \o from[k + 1]
    IN from[1]

\* Lines that hold one well-formed relation statement, or nothing.
PlainRelationLines ==
    {LineRelation, LineRelationLabel, LineBlank, LineComment, LineCommentRelation}

\* C22: diagram.relations is exactly the sequence of top-level relation
\* statements in source order, with repetitions kept; a text of well-formed
\* relation statements never makes parse raise, however often it repeats a
\* from/to pair.
C22_RelationsInSourceOrder ==
    /\ pc = "returned" => result.relations = RelationStatements
    /\ Finished /\ (\A l \in 1..Len(text) : text[l] \in PlainRelationLines)
           => pc = "returned"

\* parse returned a diagram in which one from/to pair occurs more than once.
C22_Witness ==
    /\ pc = "returned"
    /\ \E i, j \in 1..Len(result.relations) :
           /\ i < j
           /\ result.relations[i].from = result.relations[j].from
           /\ result.relations[i].to = result.relations[j].to

\* ------------------------------------------------------------------- C23
\* Source line l holds nothing but blanks.
IsBlankLine(l) == \A i \in 1..Len(text[l]) : text[l][i] = Blank

\* The first non-blank characters of source line l are '//'.
IsCommentLine(l) ==
    \E i \in 1..(Len(text[l]) - 1) :
        /\ \A k \in 1..(i - 1) : text[l][k] = Blank
        /\ text[l][i] = "/"
        /\ text[l][i + 1] = "/"

\* The tokens stamped with line l, in the order they have in the token list.
StampedWith(l) == SelectSeq(tokens, LAMBDA tok : tok.line = l)

\* The lexemes written on source line l, in the order they are written.
Lexemes(l) == LET toks == LineTokens(l)
              IN [k \in 1..Len(toks) |-> [type |-> toks[k].type, value |-> toks[k].value]]

\* C23: tokenize emits no token for a blank line or for a line whose first
\* non-blank characters are '//'; it emits the tokens of every other line,
\* in source order, and stamps each token with the 1-based index of its
\* line in the original text, skipped lines counted.
C23_TokensFollowSourceLines ==
    pc # "idle" =>
        /\ \A i \in 1..Len(tokens) : tokens[i].line \in 1..Len(text)
        /\ \A i, j \in 1..Len(tokens) : i < j => tokens[i].line <= tokens[j].line
        /\ \A l \in 1..Len(text) :
               IF IsBlankLine(l) \/ IsCommentLine(l)
               THEN StampedWith(l) = <<>>
               ELSE LET written == Lexemes(l)
                        stamped == StampedWith(l)
                    IN /\ written # <<>>
                       /\ written = [k \in 1..Len(stamped) |->
                                       [type |-> stamped[k].type, value |-> stamped[k].value]]

\* A text with a blank line and a comment line before a line of tokens has
\* been tokenized.
C23_Witness ==
    /\ pc # "idle"
    /\ \E b, c, l \in 1..Len(text) :
           /\ b < l /\ c < l
           /\ IsBlankLine(b)
           /\ IsCommentLine(c) /\ text[c][1] = Blank
           /\ StampedWith(l) # <<>>

\* ------------------------------------------------------------------- C27
\* The parent fields of the components and containers of diagram d.
ParentFields(d) ==
    {d.components.at[c].parent : c \in DOMAIN d.components.at}
        \cup {d.containers.at[c].parent : c \in DOMAIN d.containers.at}

\* The ids listed in the children of the containers of diagram d.
ListedChildren(d) ==
    UNION {{d.containers.at[c].children[i] : i \in 1..Len(d.containers.at[c].children)} :
             c \in DOMAIN d.containers.at}

\* C27: in every returned diagram each non-null parent field of a component
\* or container is a key of diagram.containers, and each id in a children
\* list is a key of diagram.components or of diagram.containers.
C27_ReferentialIntegrity ==
    pc = "returned" =>
        /\ \A parent \in ParentFields(result) \ {NullRef} : Has(result.containers, parent)
        /\ \A child \in ListedChildren(result) :
               Has(result.components, child) \/ Has(result.containers, child)

\* parse returned a diagram with a component and a container listed as
\* children, each with a parent.
C27_Witness ==
    /\ pc = "returned"
    /\ \E child \in ListedChildren(result) :
           Has(result.components, child) /\ result.components.at[child].parent # NullRef
    /\ \E child \in ListedChildren(result) :
           Has(result.containers, child) /\ result.containers.at[child].parent # NullRef

\* ------------------------------------------------------------------- C28
RECURSIVE Below(_, _, _)
\* The container ids met by following children lists downward from the
\* ids in frontier, given those already met.
Below(d, frontier, seen) ==
    LET new == {c \in frontier : Has(d.containers, c)} \ seen
    IN IF new = {} THEN seen
       ELSE Below(d, UNION {{d.containers.at[c].children[i] :
                               i \in 1..Len(d.containers.at[c].children)} : c \in new},
                  seen \cup new)

\* The container ids reachable from container c through one or more
\* children lists.
Descendants(d, c) ==
    Below(d, {d.containers.at[c].children[i] : i \in 1..Len(d.containers.at[c].children)}, {})

\* C28: container nesting is acyclic in every returned diagram: no container
\* id is reachable from itself by following children lists, so the
\* recursive walks over children lists come to an end.
C28_NestingIsAcyclic ==
    pc = "returned" =>
        \A c \in DOMAIN result.containers.at : c \notin Descendants(result, c)

\* ------------------------------------------------------------------- C26
\* C26: parse terminates on every finite input. The cursor stays within
\* 0..Len(tokens); every iteration of the statement loop and of a container
\* body loop (with the attribute and block loops it runs) moves the cursor
\* forward by at least one token or raises; parse returns only with the
\* cursor at the end of the token list; and every call that has started
\* ends, by a return or by an error.
C26_ParseTerminates ==
    /\ [](position \in 0..Len(tokens))
    /\ [][pc = "parsing" =>
             \/ pc' = "raised"
             \/ pc' = "returned" /\ position' = position /\ position = Len(tokens)
             \/ pc' = "parsing" /\ position' > position]_vars
    /\ [](pc = "returned" => position = Len(tokens) /\ Len(consumedAs) = Len(tokens))
    /\ (pc = "parsing" ~> Finished)

\* A parse call that went through a container body loop has returned with
\* every token consumed.
C26_Witness ==
    /\ pc = "returned"
    /\ position = Len(tokens)
    /\ \E i \in 1..Len(decls) : decls[i].kind = "container"
    /\ \E j \in 1..Len(consumedAs) : consumedAs[j] = NoType

\* ------------------------------------------------------------------- C29
\* C29: for every diagram that parses and validates, calculateLayout gives
\* a position to every component and every container, whatever its nesting
\* depth, so render creates a mesh for each of them and a connection for
\* every relation.
C29_EverythingIsPlaced ==
    validation.status = "valid" =>
        LET layout == calculateLayout(result)
            r == render(NewRenderer, result)
        IN /\ \A id \in DOMAIN result.components.at :
                  /\ Has(layout.components, id)
                  /\ Mesh(result, id, "component") \in r.scene
           /\ \A id \in DOMAIN result.containers.at :
                  /\ Has(layout.containers, id)
                  /\ Mesh(result, id, "container") \in r.scene
           /\ Len(r.connections) = Len(result.relations)

C25_ClickAfterDragIsIgnored ==
    [][history.lastEvent = "mouseup" /\ history.ended = "drag"
       /\ history'.lastEvent = "click"
          => /\ renderer'.selectedObject = renderer.selectedObject
             /\ history'.opened = NoLink]_vars

\* ------------------------------------------------------------------- C30
\* C30: under any sequence of mousedown, mousemove, mouseup and render
\* events the renderer is never dragging and panning at the same time, and
\* after every mouseup event neither a drag nor a pan is active.
C30_DragAndPanExclude ==
    /\ ~(renderer.isDragging /\ renderer.isPanning)
    /\ history.lastEvent = "mouseup" => ~renderer.isDragging /\ ~renderer.isPanning

====
